---------------------------- MODULE Spec2Model ----------------------------
(***************************************************************************)
(* A model of muse_spotify_recorder: the packet decoder (muse_parser.py),  *)
(* the EEG frame synchronizer and notification callbacks                   *)
(* (custom_muse_streamer.py), the LSL sink (muse_lsl_streamer.py), the BLE *)
(* link (muse_bluetooth.py) and the recording session (recorder.py,        *)
(* lsl_utils.py, spotify_client.py).                                       *)
(*                                                                         *)
(* Units.  Time (pylsl.local_clock) is counted in ticks of 1/3328 s, the   *)
(* least common multiple of the nominal rates 256 Hz and 52 Hz, so that    *)
(* 1/256 s and 1/52 s are whole numbers of ticks.  EEG values are in       *)
(* 1/256 microvolt (0.48828125 = 125/256).                                 *)
(***************************************************************************)
EXTENDS Integers, Sequences, FiniteSets, TLC

VARIABLES
    \* ---- CustomMuseStreamer (custom_muse_streamer.py:56-72)
    eeg_buffer,        \* _eeg_buffer: packet_index -> (channel -> samples)
    eeg_timestamps,    \* _eeg_timestamps: packet_index -> first-arrival clock
    packet_counts,     \* _packet_counts: sensor -> packets handled
    \* ---- MuseLSLStreamer (muse_lsl_streamer.py:51-55)
    streams_created,   \* _streams_created
    outlet,            \* per stream: samples published so far, last chunk
    \* ---- environment of the streamer
    clock,             \* pylsl.local_clock(), in ticks
    next_seq,          \* device: frames sent so far on each EEG characteristic
    alive,             \* device: EEG characteristics still notifying
    first_seq,         \* device: sequence index of its first frame
    \* ---- observations of the synchronizer (history, not program state)
    delivered,         \* packet_index -> (channel -> valid packets handled)
    frames,            \* packet_index -> frames pushed for that index
    last_note,         \* the notification handled last and what it did
    \* ---- RecordingState, RecordingConfig (models.py:18-62)
    should_stop,       \* state.should_stop
    play_detected,     \* state.play_detected
    track_info,        \* state.track_info, NoTrackInfo while unset
    pre_roll_sec,      \* cfg.pre_roll_sec, in ticks
    \* ---- run_session and wait_for_spotify_play
    session_pc,        \* where run_session is
    last_is_playing,   \* local of wait_for_spotify_play
    last_track_id,     \* local of wait_for_spotify_play
    returned_info,     \* what wait_for_spotify_play returned
    \* ---- recording_loop
    rec_pc,            \* where recording_loop is
    play_lsl,          \* local play_lsl
    stream_no,         \* position of the for loop over stream_cfgs
    pending,           \* timestamps of the pulled chunk not yet handled
    sample_indices,    \* local sample_indices
    writers,           \* the CSV files: unopened, open, closed
    rows,              \* per stream: rows written so far, the last row
    \* ---- observations of the session (history, not program state)
    events_created,    \* SpotifyTrackInfo objects constructed
    pulls,             \* chunks pulled from the inlets
    last_sample,       \* the sample handled last and whether it was kept
    last_poll,         \* the poll of wait_for_spotify_play made last
    \* ---- MuseBLEClient (muse_bluetooth.py:54-60) and its BleakClient
    ble_client,        \* client, _connected, _streaming, callbacks
    radio,             \* the link itself and the notifying characteristics
    \* ---- CustomMuseStreamer (custom_muse_streamer.py:54-55)
    running,           \* _running
    keep_alive_task,   \* _keep_alive_task: None, running, cancelled
    \* ---- observations of the link (history, not program state)
    last_call,         \* the call made last and the operations it performed
    calls,             \* calls made so far
    \* ---- the decoder called on its own (muse_parser.py)
    packet,            \* the bytes handed to a parse function
    unpacked,          \* which function parsed them and what it returned
    \* ---- the event loop of the streamer's thread (recorder.py:43-65)
    in_flight,         \* callbacks entered and not yet returned: their locals
    \* ---- MuseStreamerThread (recorder.py:27-34) and its thread
    thread             \* the object's fields, the thread's position, the loop

syncVars == <<eeg_buffer, eeg_timestamps, packet_counts, streams_created,
              outlet, clock, next_seq, alive, first_seq, delivered, frames,
              last_note>>

sessionVars == <<should_stop, play_detected, track_info, pre_roll_sec,
                 session_pc, last_is_playing, last_track_id, returned_info,
                 rec_pc, play_lsl, stream_no, pending, sample_indices,
                 writers, rows, events_created, pulls, last_sample,
                 last_poll>>

linkVars == <<ble_client, radio, running, keep_alive_task, last_call, calls>>

decoderVars == <<packet, unpacked>>

eventLoopVars == <<in_flight>>

threadVars == <<thread>>

\* MuseStreamerThread.__init__: no loop, no thread, _running False, the
\* event clear; main is the position of the caller's thread, pc the position
\* of the background thread, queued the stop() scheduled on the loop by
\* terminate, and returned, terminated, raised and stops are observations
NewThread ==
    [main |-> "idle", pc |-> "none", running |-> FALSE,
     started_event |-> FALSE, loop |-> "None", queued |-> "none",
     returned |-> <<>>, terminated |-> FALSE, raised |-> FALSE, stops |-> 0]

ThreadIdle == thread = NewThread

vars == <<syncVars, sessionVars, linkVars, decoderVars, eventLoopVars,
          threadVars>>

-----------------------------------------------------------------------------
(* Bounds of the model *)

\* notifications delivered in one run of the synchronizer
MaxNotes == 5
\* largest clock reading, in ticks
MaxClock == 1
\* largest block handed to the sink directly
MaxBlock == 3
\* blocks handed to the sink directly in one run
MaxPushes == 2
\* largest LSL timestamp of a session, in ticks
MaxLsl == 2
\* samples in one pulled chunk
MaxChunk == 1
\* non-empty chunks the inlets hand over in one session
MaxPulls == 2
\* largest pre-roll, in ticks
MaxPreRoll == 1
\* frames the device sends per characteristic in the retention runs
MaxFrames == 11
\* characteristics that may stop notifying for good
MaxDead == 1
\* how far one characteristic may run ahead of the slowest live one
MaxLag == 1
\* calls of the link and streamer methods in one run
MaxCalls == 2
\* radio operations that fail during one call
MaxFaults == 1

-----------------------------------------------------------------------------
(* Program constants *)

TicksPerSecond == 13 * 256
EEG_SAMPLE_RATE == 256
ACC_SAMPLE_RATE == 52
GYRO_SAMPLE_RATE == 52
PacketBytes == 20
SamplesPerEegPacket == 12
EegMidScale == 2048
EegScale256 == 125
RetentionWindow == 10
SeqModulus == 65536

EEG_CHANNEL_NAMES == <<"TP9", "AF7", "AF8", "TP10">>
Channels == {"TP9", "AF7", "AF8", "TP10"}
Streams == {"EEG", "ACC", "GYRO"}
Sensors == Channels \cup {"ACC", "GYRO"}

EmptyFn == [x \in {} |-> 0]

\* dict assignment d[k] = v
Assign(d, k, v) == [x \in DOMAIN d \cup {k} |-> IF x = k THEN v ELSE d[x]]

\* del d[k] for every k in ks
Without(d, ks) == [x \in DOMAIN d \ ks |-> d[x]]


-----------------------------------------------------------------------------
(* muse_parser.py: the packet decoder.  A payload is a sequence of bytes. *)

\* bitstring "uint:16" at the start of the payload (big-endian)
UInt16At(data, pos) == data[pos] * 256 + data[pos + 1]

\* bitstring "int:16": the same two bytes read as two's complement
Int16At(data, pos) ==
    LET u == UInt16At(data, pos)
    IN  IF u >= 32768 THEN u - 65536 ELSE u

\* every 12-bit field read as if it started on a byte boundary
UInt12FieldAligned(data, k) ==
    LET o == 3 + ((3 * k) \div 2)
    IN  data[o] * 16 + (data[o + 1] \div 16)

\* bitstring "uint:12" number k (0-based) after the 16-bit index: the field
\* at bit offset 16 + 12k, which starts on a byte boundary when k is even
\* and in the middle of a byte when k is odd
UInt12Field(data, k) ==
    LET o == 3 + ((3 * k) \div 2)
    IN  IF k % 2 = 0
        THEN data[o] * 16 + (data[o + 1] \div 16)
        ELSE (data[o] % 16) * 256 + data[o + 1]

\* a decoder that pads or truncates instead of rejecting
parse_eeg_padding(data) ==
    [raised |-> FALSE,
     packet_index |-> IF Len(data) >= 2 THEN UInt16At(data, 1) ELSE 0,
     samples |-> [k \in 1..SamplesPerEegPacket |-> 0]]

\* parse_eeg_packet: ValueError unless the payload is 20 bytes; else the
\* index and the 12 samples EEG_SCALE_FACTOR * (raw - 2048)
parse_eeg_packet(data) ==
    IF Len(data) # PacketBytes
    THEN [raised |-> TRUE, packet_index |-> 0, samples |-> <<>>]
    ELSE [raised |-> FALSE,
          packet_index |-> UInt16At(data, 1),
          samples |-> [k \in 1..SamplesPerEegPacket |->
                          EegScale256 * (UInt12Field(data, k - 1) - EegMidScale)]]

\* the row-major grouping: row r, column c is raw value number 3r + c
ReshapeC(data, scale) ==
    [r \in 1..3 |-> [c \in 1..3 |->
        scale * Int16At(data, 3 + 2 * (3 * (r - 1) + (c - 1)))]]

\* raw_data.reshape((3, 3), order='F') * scale: row r, column c of the
\* block is raw value number 3c + r (0-based) of the nine int16 values
ReshapeF(data, scale) ==
    [r \in 1..3 |-> [c \in 1..3 |->
        scale * Int16At(data, 3 + 2 * (3 * (c - 1) + (r - 1)))]]

\* ACC_SCALE_FACTOR = 0.0000610352, in units of 1.6e-9 g
AccScale == 38147
\* GYRO_SCALE_FACTOR = 0.0074768, in units of 1.6e-6 deg/s
GyroScale == 4673

\* parse_acc_packet / parse_gyro_packet: the same code but for the scale
parse_imu_packet(data, scale) ==
    IF Len(data) # PacketBytes
    THEN [raised |-> TRUE, packet_index |-> 0, samples |-> <<>>]
    ELSE [raised |-> FALSE,
          packet_index |-> UInt16At(data, 1),
          samples |-> ReshapeF(data, scale)]

\* an accelerometer decoder that applies the gyroscope's factor
parse_acc_as_gyro(data) == parse_imu_packet(data, GyroScale)

parse_acc_packet(data) == parse_imu_packet(data, AccScale)
parse_gyro_packet(data) == parse_imu_packet(data, GyroScale)

-----------------------------------------------------------------------------
(* The device side: what the headband puts on the wire.  Not code of the   *)
(* repository; the layouts are those the parser's docstrings state.        *)

ChanNo(c) == CHOOSE n \in 1..4 : EEG_CHANNEL_NAMES[n] = c

\* the 12 raw ADC values the device sends on characteristic c in frame i:
\* different for every channel and every frame
DeviceRaw(c, i) ==
    [k \in 1..SamplesPerEegPacket |-> (1000 * ChanNo(c) + 7 * (i % 64) + k) % 4096]

\* two 12-bit values in three bytes
Pack12Pair(a, b) == <<a \div 16, (a % 16) * 16 + (b \div 256), b % 256>>

PackEeg(i, raw) ==
    <<i \div 256, i % 256>>
      \o Pack12Pair(raw[1], raw[2]) \o Pack12Pair(raw[3], raw[4])
      \o Pack12Pair(raw[5], raw[6]) \o Pack12Pair(raw[7], raw[8])
      \o Pack12Pair(raw[9], raw[10]) \o Pack12Pair(raw[11], raw[12])

EegPayload(c, i) == PackEeg(i, DeviceRaw(c, i))

PackInt16(v) ==
    LET u == IF v < 0 THEN v + 65536 ELSE v
    IN  <<u \div 256, u % 256>>

\* nine int16 values, all X's, then all Y's, then all Z's
DeviceImuRaw(i) == [n \in 1..9 |-> 100 * n - 450 + i]

ImuPayload(i) ==
    LET raw == DeviceImuRaw(i)
    IN  <<i \div 256, i % 256>>
          \o PackInt16(raw[1]) \o PackInt16(raw[2]) \o PackInt16(raw[3])
          \o PackInt16(raw[4]) \o PackInt16(raw[5]) \o PackInt16(raw[6])
          \o PackInt16(raw[7]) \o PackInt16(raw[8]) \o PackInt16(raw[9])

\* payloads of a wrong length: one byte short, one byte long, empty
Malformed(data) == {SubSeq(data, 1, Len(data) - 1), Append(data, 0), <<>>}

-----------------------------------------------------------------------------
(* muse_lsl_streamer.py: the sink. *)

Rate(stream) ==
    CASE stream = "EEG" -> EEG_SAMPLE_RATE
      [] stream = "ACC" -> ACC_SAMPLE_RATE
      [] stream = "GYRO" -> GYRO_SAMPLE_RATE

\* every stream stamped with the EEG period
time_per_sample_shared(stream) == TicksPerSecond \div EEG_SAMPLE_RATE

\* time_per_sample = 1.0 / <stream>_SAMPLE_RATE
time_per_sample(stream) == TicksPerSecond \div Rate(stream)

\* sample_timestamp = timestamp + (i * time_per_sample)
sample_timestamp(timestamp, i, stream) == timestamp + i * time_per_sample(stream)

\* a sink that publishes a block of several samples last sample first
push_chunk_reversed(stream, samples, timestamp) ==
    IF ~streams_created
    THEN [raised |-> TRUE, chunk |-> <<>>]
    ELSE IF Len(samples) > 1
    THEN [raised |-> FALSE,
          chunk |-> [n \in 1..Len(samples) |->
                       [ts |-> sample_timestamp(timestamp,
                                                Len(samples) - n, stream),
                        sample |-> samples[Len(samples) + 1 - n]]]]
    ELSE IF Len(samples) = 1
    THEN [raised |-> FALSE,
          chunk |-> <<[ts |-> timestamp, sample |-> samples[1]]>>]
    ELSE [raised |-> TRUE, chunk |-> <<>>]

\* push_eeg_chunk / push_acc_chunk / push_gyro_chunk: the same code but for
\* the outlet and the rate.  RuntimeError when the streams are not created;
\* a block of several samples is pushed sample by sample with interpolated
\* timestamps, a single sample with the timestamp as given (samples[0] of an
\* empty block raises IndexError).
push_chunk(stream, samples, timestamp) ==
    IF ~streams_created
    THEN [raised |-> TRUE, chunk |-> <<>>]
    ELSE IF Len(samples) > 1
    THEN [raised |-> FALSE,
          chunk |-> [n \in 1..Len(samples) |->
                       [ts |-> sample_timestamp(timestamp, n - 1, stream),
                        sample |-> samples[n]]]]
    ELSE IF Len(samples) = 1
    THEN [raised |-> FALSE,
          chunk |-> <<[ts |-> timestamp, sample |-> samples[1]]>>]
    ELSE [raised |-> TRUE, chunk |-> <<>>]

\* the outlet after a chunk was pushed to it: the call and what it published
Published(o, samples, timestamp, chunk) ==
    [count |-> o.count + Len(chunk),
     ref |-> timestamp,
     block |-> samples,
     chunk |-> chunk]

NoOutlet == [count |-> 0, ref |-> 0, block |-> <<>>, chunk |-> <<>>]

-----------------------------------------------------------------------------
(* custom_muse_streamer.py: the EEG synchronizer. *)

\* the channels stacked in arrival order of the dict, not by name
column_stack_swapped(entry) ==
    [k \in 1..SamplesPerEegPacket |->
        <<entry["TP9"][k], entry["AF8"][k], entry["AF7"][k], entry["TP10"][k]>>]

\* np.column_stack of the four channels: row k is <<TP9, AF7, AF8, TP10>>
column_stack(entry) ==
    [k \in 1..SamplesPerEegPacket |->
        <<entry["TP9"][k], entry["AF7"][k], entry["AF8"][k], entry["TP10"][k]>>]

\* sorted(self._eeg_buffer.keys())[:-10]: all but the 10 largest keys
oldest_indices(keys) ==
    {k \in keys : Cardinality({j \in keys : j > k}) >= RetentionWindow}

\* a synchronizer that stamps the entry again at every arrival
process_eeg_packet_restamping(channel, packet_index, samples) ==
    LET known == packet_index \in DOMAIN eeg_buffer
        stamps == Assign(eeg_timestamps, packet_index, clock)
        entry == Assign(IF known THEN eeg_buffer[packet_index] ELSE EmptyFn,
                        channel, samples)
        buffer == Assign(eeg_buffer, packet_index, entry)
    IN  IF Cardinality(DOMAIN entry) = 4
        THEN LET combined == column_stack(entry)
                 timestamp == stamps[packet_index]
                 push == push_chunk("EEG", combined, timestamp)
                 old == IF Cardinality(DOMAIN buffer) > RetentionWindow
                        THEN oldest_indices(DOMAIN buffer) ELSE {}
             IN  IF push.raised
                 THEN [buffer |-> buffer, timestamps |-> stamps, raised |-> TRUE,
                       pushed |-> FALSE, block |-> combined, ref |-> timestamp,
                       chunk |-> <<>>]
                 ELSE [buffer |-> Without(buffer, old),
                       timestamps |-> Without(stamps, old), raised |-> FALSE,
                       pushed |-> TRUE, block |-> combined, ref |-> timestamp,
                       chunk |-> push.chunk]
        ELSE [buffer |-> buffer, timestamps |-> stamps, raised |-> FALSE,
              pushed |-> FALSE, block |-> <<>>, ref |-> 0, chunk |-> <<>>]

\* _process_eeg_packet: what it leaves in the two tables and what it pushes.
\* raised: push_eeg_chunk raised, so the cleanup after it did not run.
process_eeg_packet(channel, packet_index, samples) ==
    LET known == packet_index \in DOMAIN eeg_buffer
        stamps == IF known THEN eeg_timestamps
                  ELSE Assign(eeg_timestamps, packet_index, clock)
        entry == Assign(IF known THEN eeg_buffer[packet_index] ELSE EmptyFn,
                        channel, samples)
        buffer == Assign(eeg_buffer, packet_index, entry)
    IN  IF Cardinality(DOMAIN entry) = 4
        THEN LET combined == column_stack(entry)
                 timestamp == stamps[packet_index]
                 push == push_chunk("EEG", combined, timestamp)
                 old == IF Cardinality(DOMAIN buffer) > RetentionWindow
                        THEN oldest_indices(DOMAIN buffer) ELSE {}
             IN  IF push.raised
                 THEN [buffer |-> buffer, timestamps |-> stamps, raised |-> TRUE,
                       pushed |-> FALSE, block |-> combined, ref |-> timestamp,
                       chunk |-> <<>>]
                 ELSE [buffer |-> Without(buffer, old),
                       timestamps |-> Without(stamps, old), raised |-> FALSE,
                       pushed |-> TRUE, block |-> combined, ref |-> timestamp,
                       chunk |-> push.chunk]
        ELSE [buffer |-> buffer, timestamps |-> stamps, raised |-> FALSE,
              pushed |-> FALSE, block |-> <<>>, ref |-> 0, chunk |-> <<>>]

Bump(f, k) == Assign(f, k, IF k \in DOMAIN f THEN f[k] + 1 ELSE 1)

Note(sensor, data, parsed, index, pushed) ==
    [n |-> last_note.n + 1, sensor |-> sensor, size |-> Len(data),
     parsed |-> parsed, index |-> index, pushed |-> pushed]

\* _on_eeg_tp9_data, _on_eeg_af7_data, _on_eeg_af8_data, _on_eeg_tp10_data:
\* parse, synchronize, count; any exception is printed and dropped
on_eeg_data(channel, data) ==
    LET p == parse_eeg_packet(data)
    IN  IF p.raised
        THEN /\ UNCHANGED <<eeg_buffer, eeg_timestamps, packet_counts, outlet,
                            delivered, frames>>
             /\ last_note' = Note(channel, data, FALSE, -1, FALSE)
        ELSE LET r == process_eeg_packet(channel, p.packet_index, p.samples)
             IN  /\ eeg_buffer' = r.buffer
                 /\ eeg_timestamps' = r.timestamps
                 /\ outlet' = IF r.pushed
                              THEN [outlet EXCEPT !["EEG"] =
                                      Published(@, r.block, r.ref, r.chunk)]
                              ELSE outlet
                 /\ packet_counts' = IF r.raised THEN packet_counts
                                     ELSE [packet_counts EXCEPT ![channel] = @ + 1]
                 /\ delivered' = Assign(delivered, p.packet_index,
                        Bump(IF p.packet_index \in DOMAIN delivered
                             THEN delivered[p.packet_index] ELSE EmptyFn, channel))
                 /\ frames' = IF r.pushed THEN Bump(frames, p.packet_index)
                              ELSE frames
                 /\ last_note' = Note(channel, data, TRUE, p.packet_index, r.pushed)

\* _on_acc_data, _on_gyro_data: parse, stamp with the clock, push, count
on_imu_data(sensor, data) ==
    LET p == IF sensor = "ACC" THEN parse_acc_packet(data)
             ELSE parse_gyro_packet(data)
        push == push_chunk(sensor, p.samples, clock)
    IN  /\ UNCHANGED <<eeg_buffer, eeg_timestamps, delivered, frames>>
        /\ IF p.raised \/ push.raised
           THEN /\ UNCHANGED <<packet_counts, outlet>>
                /\ last_note' = Note(sensor, data, ~p.raised, -1, FALSE)
           ELSE /\ outlet' = [outlet EXCEPT ![sensor] =
                                Published(@, p.samples, clock, push.chunk)]
                /\ packet_counts' = [packet_counts EXCEPT ![sensor] = @ + 1]
                /\ last_note' = Note(sensor, data, TRUE, p.packet_index, TRUE)

-----------------------------------------------------------------------------
(* muse_bluetooth.py: MuseBLEClient over a BleakClient whose every radio   *)
(* operation may fail.  An operation takes the client object, the radio    *)
(* state and the set of radio operations that fail during the call, and    *)
(* yields the new client, the new radio state, the radio operations it     *)
(* performed in order, what it raised and what it returned.                *)

SensorOrder == <<"TP9", "AF7", "AF8", "TP10", "ACC", "GYRO">>

\* MuseBLEClient.__init__
NewClient ==
    [client |-> "None", connected |-> FALSE, streaming |-> FALSE,
     callbacks |-> {}]

\* the radio before any connection
RadioOff == [link_up |-> FALSE, notifying |-> {}]

FindDevice == [call |-> "find_device_by_filter", arg |-> "name"]
Connect == [call |-> "connect", arg |-> "client"]
IsConnected == [call |-> "is_connected", arg |-> "client"]
Disconnect == [call |-> "disconnect", arg |-> "client"]
StartNotify(s) == [call |-> "start_notify", arg |-> s]
StopNotify(s) == [call |-> "stop_notify", arg |-> s]
Write(cmd) == [call |-> "write_gatt_char", arg |-> cmd]

CMD_PRESET_P21 == "p21"
CMD_START_STREAM == "d"
CMD_STOP_STREAM == "h"
CMD_KEEP_ALIVE == "k"

\* the bytes written for each command
ControlBytes ==
    [p21 |-> <<4, 112, 50, 49, 10>>, d |-> <<2, 100, 10>>,
     h |-> <<2, 104, 10>>, k |-> <<2, 107, 10>>]

RadioOps ==
    {FindDevice, Connect, IsConnected, Disconnect}
    \cup {StartNotify(s) : s \in Sensors}
    \cup {StopNotify(s) : s \in Sensors}
    \cup {Write(c) : c \in {CMD_PRESET_P21, CMD_START_STREAM,
                            CMD_STOP_STREAM, CMD_KEEP_ALIVE}}

ConnectOps == {FindDevice, Connect, IsConnected}
SubscribeOps == {StartNotify(s) : s \in Sensors}
StartStreamOps == {Write(CMD_PRESET_P21), Write(CMD_START_STREAM)}
StopStreamOps == {Write(CMD_STOP_STREAM)}
KeepAliveOps == {Write(CMD_KEEP_ALIVE)}
DisconnectOps ==
    StopStreamOps \cup {StopNotify(s) : s \in Sensors} \cup {Disconnect}
StartOps == ConnectOps \cup SubscribeOps \cup StartStreamOps \cup DisconnectOps

RECURSIVE FaultSets(_, _)
\* the sets of at most n of the radio operations ops
FaultSets(n, ops) ==
    IF n = 0 THEN {{}}
    ELSE LET fewer == FaultSets(n - 1, ops)
         IN  fewer \cup {f \cup {op} : f \in fewer, op \in ops}

\* the radio operations that fail during one call that can perform ops: up
\* to MaxFaults of them, and the close of the link besides
Faults(ops) ==
    {f \cup g : f \in FaultSets(MaxFaults, ops \ {Disconnect}),
                g \in {{}, ops \cap {Disconnect}}}

\* await asyncio.sleep(0.5) after a control write
Settle == [call |-> "sleep", arg |-> "settle", ok |-> TRUE]

Did(op, fails) == [call |-> op.call, arg |-> op.arg, ok |-> op \notin fails]

Out(c, r, trace, raised, result) ==
    [ble |-> c, radio |-> r, trace |-> trace, raised |-> raised,
     result |-> result]

\* a connect that sets the connected flag before the handshake is known to
\* have worked
connect_optimistic(c, r, fails) ==
    IF c.connected THEN Out(c, r, <<>>, "none", TRUE)
    ELSE IF FindDevice \in fails
    THEN Out(c, r, <<Did(FindDevice, fails)>>, "none", FALSE)
    ELSE Out([c EXCEPT !.client = "BleakClient", !.connected = TRUE],
             [link_up |-> fails \cap {Connect, IsConnected} = {},
              notifying |-> {}],
             <<Did(FindDevice, fails), Did(Connect, fails),
               Did(IsConnected, fails)>>,
             "none", fails \cap {Connect, IsConnected} = {})

\* MuseBLEClient.connect
connect(c, r, fails) ==
    IF c.connected THEN Out(c, r, <<>>, "none", TRUE)
    ELSE IF FindDevice \in fails
    THEN Out(c, r, <<Did(FindDevice, fails)>>, "none", FALSE)
    ELSE LET made == [c EXCEPT !.client = "BleakClient"]
             fresh == [r EXCEPT !.notifying = {}]
             up == [fresh EXCEPT !.link_up = TRUE]
             down == [fresh EXCEPT !.link_up = FALSE]
         IN  IF Connect \in fails
             THEN Out(made, down,
                      <<Did(FindDevice, fails), Did(Connect, fails)>>,
                      "none", FALSE)
             ELSE IF IsConnected \in fails
             THEN Out(made, down,
                      <<Did(FindDevice, fails), Did(Connect, fails),
                        Did(IsConnected, fails)>>, "none", FALSE)
             ELSE Out([made EXCEPT !.connected = TRUE], up,
                      <<Did(FindDevice, fails), Did(Connect, fails),
                        Did(IsConnected, fails)>>, "none", TRUE)

\* MuseBLEClient.subscribe_to_sensors: the six start_notify calls in order,
\* up to the first that raises
subscribe_to_sensors(c, r, fails) ==
    IF ~c.connected \/ c.client = "None"
    THEN Out(c, r, <<>>, "RuntimeError", FALSE)
    ELSE LET failed == {k \in 1..6 : StartNotify(SensorOrder[k]) \in fails}
             stop == IF failed = {} THEN 7
                     ELSE CHOOSE k \in failed : \A j \in failed : k <= j
             last == IF stop = 7 THEN 6 ELSE stop
             done == {SensorOrder[k] : k \in 1..(stop - 1)}
         IN  Out([c EXCEPT !.callbacks = @ \cup done],
                 [r EXCEPT !.notifying = @ \cup done],
                 [k \in 1..last |-> Did(StartNotify(SensorOrder[k]), fails)],
                 "none", stop = 7)

start_streaming_eager(c, r, fails) ==
    IF ~c.connected \/ c.client = "None"
    THEN Out(c, r, <<>>, "RuntimeError", FALSE)
    ELSE IF c.streaming THEN Out(c, r, <<>>, "none", TRUE)
    ELSE IF Write(CMD_PRESET_P21) \in fails
    THEN Out(c, r, <<Did(Write(CMD_PRESET_P21), fails)>>, "none", FALSE)
    ELSE Out([c EXCEPT !.streaming = TRUE], r,
             <<Did(Write(CMD_PRESET_P21), fails), Settle,
               Did(Write(CMD_START_STREAM), fails)>>, "none",
             Write(CMD_START_STREAM) \notin fails)

\* MuseBLEClient.start_streaming
start_streaming(c, r, fails) ==
    IF ~c.connected \/ c.client = "None"
    THEN Out(c, r, <<>>, "RuntimeError", FALSE)
    ELSE IF c.streaming THEN Out(c, r, <<>>, "none", TRUE)
    ELSE IF Write(CMD_PRESET_P21) \in fails
    THEN Out(c, r, <<Did(Write(CMD_PRESET_P21), fails)>>, "none", FALSE)
    ELSE IF Write(CMD_START_STREAM) \in fails
    THEN Out(c, r, <<Did(Write(CMD_PRESET_P21), fails), Settle,
                     Did(Write(CMD_START_STREAM), fails)>>, "none", FALSE)
    ELSE Out([c EXCEPT !.streaming = TRUE], r,
             <<Did(Write(CMD_PRESET_P21), fails), Settle,
               Did(Write(CMD_START_STREAM), fails), Settle>>, "none", TRUE)

\* MuseBLEClient.stop_streaming
stop_streaming(c, r, fails) ==
    IF ~c.connected \/ c.client = "None"
    THEN Out(c, r, <<>>, "RuntimeError", FALSE)
    ELSE IF ~c.streaming THEN Out(c, r, <<>>, "none", TRUE)
    ELSE IF Write(CMD_STOP_STREAM) \in fails
    THEN Out(c, r, <<Did(Write(CMD_STOP_STREAM), fails)>>, "none", FALSE)
    ELSE Out([c EXCEPT !.streaming = FALSE], r,
             <<Did(Write(CMD_STOP_STREAM), fails), Settle>>, "none", TRUE)

keep_alive_retrying(c, r, fails) ==
    IF c.connected /\ c.client # "None"
    THEN IF Write(CMD_KEEP_ALIVE) \in fails
         THEN Out(c, r, <<Did(Write(CMD_KEEP_ALIVE), fails),
                          Did(Write(CMD_KEEP_ALIVE), {})>>, "none", TRUE)
         ELSE Out(c, r, <<Did(Write(CMD_KEEP_ALIVE), fails)>>, "none", TRUE)
    ELSE Out(c, r, <<>>, "none", TRUE)

\* MuseBLEClient.keep_alive
keep_alive(c, r, fails) ==
    IF c.connected /\ c.client # "None"
    THEN Out(c, r, <<Did(Write(CMD_KEEP_ALIVE), fails)>>, "none", TRUE)
    ELSE Out(c, r, <<>>, "none", TRUE)

\* a close that clears the connection flag and leaves the streaming flag
link_closed_connection_only(c, fails) ==
    IF Disconnect \in fails THEN c
    ELSE [c EXCEPT !.connected = FALSE]

\* await self.client.disconnect(); self._connected = False;
\* self._streaming = False: the flags are cleared only when the close
\* returned
link_closed(c, fails) ==
    IF Disconnect \in fails THEN c
    ELSE [c EXCEPT !.connected = FALSE, !.streaming = FALSE]

\* MuseBLEClient.disconnect
disconnect(c, r, fails) ==
    IF ~c.connected \/ c.client = "None" THEN Out(c, r, <<>>, "none", TRUE)
    ELSE LET halt == IF c.streaming THEN stop_streaming(c, r, fails)
                     ELSE Out(c, r, <<>>, "none", TRUE)
             eeg == [k \in 1..4 |-> Did(StopNotify(SensorOrder[k]), fails)]
             imu == IF StopNotify("ACC") \in fails
                    THEN <<Did(StopNotify("ACC"), fails)>>
                    ELSE <<Did(StopNotify("ACC"), fails),
                           Did(StopNotify("GYRO"), fails)>>
             stops == eeg \o imu
             stopped == {stops[k].arg : k \in {j \in 1..Len(stops) :
                                                 stops[j].ok}}
             quiet == [r EXCEPT !.notifying = @ \ stopped]
         IN  Out(link_closed(halt.ble, fails),
                 IF Disconnect \in fails THEN quiet
                 ELSE [link_up |-> FALSE, notifying |-> {}],
                 halt.trace \o stops \o <<Did(Disconnect, fails)>>,
                 "none", TRUE)

-----------------------------------------------------------------------------
(* custom_muse_streamer.py: CustomMuseStreamer.start and stop.  The local  *)
(* operations they perform (outlets created and closed, the keep-alive     *)
(* task created and cancelled) are recorded with the radio operations.     *)

Local(call) == [call |-> call, arg |-> "self", ok |-> TRUE]

Ran(o, on, task, created, trace, result) ==
    [ble |-> o.ble, radio |-> o.radio, trace |-> trace, raised |-> "none",
     result |-> result, running |-> on, task |-> task, created |-> created]

\* CustomMuseStreamer.start
start_outcome(fails) ==
    LET here == Out(ble_client, radio, <<>>, "none", TRUE)
        con == connect(ble_client, radio, fails)
        made == IF streams_created THEN <<>>
                ELSE <<Local("create_streams")>>
        sub == subscribe_to_sensors(con.ble, con.radio, fails)
        undo_sub == disconnect(sub.ble, sub.radio, fails)
        go == start_streaming(sub.ble, sub.radio, fails)
        undo_go == disconnect(go.ble, go.radio, fails)
    IN  IF running
        THEN Ran(here, running, keep_alive_task, streams_created, <<>>, TRUE)
        ELSE IF ~con.result
        THEN Ran(con, running, keep_alive_task, streams_created, con.trace,
                 FALSE)
        ELSE IF ~sub.result
        THEN Ran(undo_sub, running, keep_alive_task, TRUE,
                 con.trace \o made \o sub.trace \o undo_sub.trace, FALSE)
        ELSE IF ~go.result
        THEN Ran(undo_go, running, keep_alive_task, TRUE,
                 con.trace \o made \o sub.trace \o go.trace
                   \o undo_go.trace, FALSE)
        ELSE Ran(go, TRUE, "running", TRUE,
                 con.trace \o made \o sub.trace \o go.trace
                   \o <<Local("create_task")>>, TRUE)

running_kept_by_stop == TRUE

\* self._running = False, the first statement of stop() after its guard
running_after_stop == FALSE

\* CustomMuseStreamer.stop
stop_outcome(fails) ==
    LET here == Out(ble_client, radio, <<>>, "none", TRUE)
        cancel == IF keep_alive_task = "None" THEN <<>>
                  ELSE <<Local("cancel")>>
        task == IF keep_alive_task = "None" THEN "None" ELSE "cancelled"
        dis == disconnect(ble_client, radio, fails)
        closed == IF streams_created THEN <<Local("close_streams")>>
                  ELSE <<>>
    IN  IF ~running
        THEN Ran(here, running, keep_alive_task, streams_created, <<>>, TRUE)
        ELSE Ran(dis, running_after_stop, task, FALSE,
                 cancel \o dis.trace \o closed, TRUE)

NoCall ==
    [op |-> "none", repeat |-> 0, raised |-> "none", result |-> TRUE,
     trace |-> <<>>]

\* the record of a call: which operation, how many times in succession it
\* has now been called, and what it did
Called(op, o) ==
    [op |-> op,
     repeat |-> IF last_call.op = op THEN last_call.repeat + 1 ELSE 1,
     raised |-> o.raised, result |-> o.result, trace |-> o.trace]

streamerData == <<eeg_buffer, eeg_timestamps, packet_counts, clock,
                  next_seq, alive, first_seq, delivered, frames, last_note>>

\* a call of one MuseBLEClient method by the owner of the client
ClientCall(op, o) ==
    /\ calls' = calls + 1
    /\ ble_client' = o.ble
    /\ radio' = o.radio
    /\ last_call' = Called(op, o)
    /\ UNCHANGED <<running, keep_alive_task, streams_created, outlet>>
    /\ UNCHANGED streamerData
    /\ UNCHANGED <<sessionVars, decoderVars,
                   eventLoopVars, threadVars>>

call_connect ==
    /\ calls < MaxCalls
    /\ \E fails \in Faults(ConnectOps) :
         ClientCall("connect", connect(ble_client, radio, fails))

call_subscribe_to_sensors ==
    /\ calls < MaxCalls
    /\ \E fails \in Faults(SubscribeOps) :
         ClientCall("subscribe_to_sensors",
                    subscribe_to_sensors(ble_client, radio, fails))

call_start_streaming ==
    /\ calls < MaxCalls
    /\ \E fails \in Faults(StartStreamOps) :
         ClientCall("start_streaming", start_streaming(ble_client, radio, fails))

call_stop_streaming ==
    /\ calls < MaxCalls
    /\ \E fails \in Faults(StopStreamOps) :
         ClientCall("stop_streaming", stop_streaming(ble_client, radio, fails))

call_keep_alive ==
    /\ calls < MaxCalls
    /\ \E fails \in Faults(KeepAliveOps) :
         ClientCall("keep_alive", keep_alive(ble_client, radio, fails))

call_disconnect ==
    /\ calls < MaxCalls
    /\ \E fails \in Faults(DisconnectOps) :
         ClientCall("disconnect", disconnect(ble_client, radio, fails))

\* a call of CustomMuseStreamer.start or stop
StreamerCall(op, o) ==
    /\ calls' = calls + 1
    /\ ble_client' = o.ble
    /\ radio' = o.radio
    /\ running' = o.running
    /\ keep_alive_task' = o.task
    /\ streams_created' = o.created
    /\ outlet' = IF o.created /\ ~streams_created
                 THEN [s \in Streams |-> NoOutlet] ELSE outlet
    /\ last_call' = Called(op, o)
    /\ UNCHANGED streamerData
    /\ UNCHANGED <<sessionVars, decoderVars,
                   eventLoopVars, threadVars>>

call_start ==
    /\ calls < MaxCalls
    /\ \E fails \in Faults(StartOps) :
         StreamerCall("start", start_outcome(fails))

call_stop ==
    /\ calls < MaxCalls
    /\ \E fails \in Faults(DisconnectOps) :
         StreamerCall("stop", stop_outcome(fails))

\* no callback entered: the event loop is free to run a task
LoopIdle == in_flight = EmptyFn

\* CustomMuseStreamer._keep_alive_loop: one period of the task, run by the
\* event loop between callbacks
keep_alive_loop ==
    /\ keep_alive_task = "running"
    /\ running
    /\ LoopIdle
    /\ calls < MaxCalls
    /\ \E fails \in Faults(KeepAliveOps) :
         ClientCall("_keep_alive_loop", keep_alive(ble_client, radio, fails))

\* the streamer after a successful start()
LinkRunning ==
    /\ ble_client = [client |-> "BleakClient", connected |-> TRUE,
                     streaming |-> TRUE, callbacks |-> Sensors]
    /\ radio = [link_up |-> TRUE, notifying |-> Sensors]
    /\ running = TRUE
    /\ keep_alive_task = "running"
    /\ last_call = NoCall
    /\ calls = 0

\* stop() scheduled on the thread's loop by MuseStreamerThread.terminate and
\* left pending when the loop's 0.1 s slice ends during the 0.5 s settle
\* delay of stop_streaming: the thread then sees is_running() False, skips
\* its own stop() and closes the loop
stop_interrupted ==
    Ran(Out(ble_client, radio, <<>>, "none", TRUE), running_after_stop,
        "cancelled", streams_created,
        <<Local("cancel"), Did(Write(CMD_STOP_STREAM), {})>>, TRUE)

\* what MuseStreamerThread.terminate can make of CustomMuseStreamer.stop:
\* a whole stop(), run by the thread's finally block or within the loop's
\* slices, with the link close working or raising, or an interrupted one
Terminations ==
    {stop_outcome({}), stop_outcome({Disconnect}), stop_interrupted}

-----------------------------------------------------------------------------
(* spotify_client.py, recorder.py, lsl_utils.py: the recording session. *)

Tracks == {"t1", "t2"}
StreamOrder == <<"EEG", "ACC", "GYRO">>

\* state.track_info = None
NoTrackInfo == [track_id |-> "None", started_at_unix |-> 0,
                started_at_lsl |-> 0]

\* the readings time.time() gives a poll
WallClocks == {0, 1}
NoRow == [sample_index |-> -1, lsl_timestamp |-> 0, time_since_play_sec |-> 0]
NoSample == [stream |-> "none", ts |-> 0, kept |-> FALSE, before |-> 0]

\* what sp.current_playback() can answer: the call failed (None), no item,
\* or an item that is paused or playing
Playbacks ==
    {[ok |-> FALSE, item |-> FALSE, is_playing |-> FALSE, track_id |-> "None"],
     [ok |-> TRUE, item |-> FALSE, is_playing |-> FALSE, track_id |-> "None"]}
    \cup {[ok |-> TRUE, item |-> TRUE, is_playing |-> p, track_id |-> t] :
            p \in BOOLEAN, t \in Tracks}

\* no parse function called on its own
NotUnpacked == [by |-> "none", raised |-> FALSE, packet_index |-> 0,
                samples |-> <<>>]

DecoderIdle ==
    /\ packet = <<>>
    /\ unpacked = NotUnpacked

\* no poll made yet
NoPoll == [made |-> FALSE,
           playback |-> [ok |-> FALSE, item |-> FALSE, is_playing |-> FALSE,
                         track_id |-> "None"],
           now_lsl |-> 0, now_unix |-> 0]

\* RecordingState(), RecordingConfig(pre_roll_sec=...), and the locals of
\* run_session and recording_loop before they run
SessionInit ==
    /\ last_poll = NoPoll
    /\ should_stop = FALSE
    /\ play_detected = FALSE
    /\ track_info = NoTrackInfo
    /\ session_pc = "arming"
    /\ last_is_playing = FALSE
    /\ last_track_id = "None"
    /\ returned_info = NoTrackInfo
    /\ rec_pc = "idle"
    /\ play_lsl = 0
    /\ stream_no = 1
    /\ pending = <<>>
    /\ sample_indices = [s \in Streams |-> 0]
    /\ writers = "unopened"
    /\ rows = [s \in Streams |-> [count |-> 0, last |-> NoRow]]
    /\ events_created = 0
    /\ pulls = 0
    /\ last_sample = NoSample

loopVars == <<rec_pc, play_lsl, stream_no, pending, sample_indices, writers,
              rows, pulls, last_sample>>

\* a poll that reports an item playing whatever was seen before it
play_started_on_item(playback) == TRUE

\* play_started of wait_for_spotify_play: playback turned from not playing
\* to playing, or the track changed while playing
play_started(playback) ==
    \/ ~last_is_playing /\ playback.is_playing
    \/ /\ playback.is_playing
       /\ last_track_id # "None"
       /\ playback.track_id # last_track_id

\* wait_for_spotify_play, one turn of its polling loop: the playback and
\* the two clocks are read; a poll that finds playback started builds the
\* SpotifyTrackInfo, stores it in the state and returns it
wait_for_spotify_play ==
    /\ session_pc = "arming"
    /\ \E playback \in Playbacks, now_lsl \in 0..MaxLsl, now_unix \in WallClocks :
         /\ last_poll' = [made |-> TRUE, playback |-> playback,
                          now_lsl |-> now_lsl, now_unix |-> now_unix]
         /\ IF playback.ok /\ playback.item
            THEN LET info == [track_id |-> playback.track_id,
                              started_at_unix |-> now_unix,
                              started_at_lsl |-> now_lsl]
                 IN  /\ last_is_playing' = playback.is_playing
                     /\ last_track_id' = playback.track_id
                     /\ IF play_started(playback)
                        THEN /\ track_info' = info
                             /\ returned_info' = info
                             /\ play_detected' = TRUE
                             /\ events_created' = events_created + 1
                             /\ session_pc' = "returned"
                        ELSE UNCHANGED <<track_info, returned_info,
                                         play_detected, events_created,
                                         session_pc>>
            ELSE UNCHANGED <<last_is_playing, last_track_id, track_info,
                             returned_info, play_detected, events_created,
                             session_pc>>
    /\ UNCHANGED <<should_stop, pre_roll_sec, loopVars>>
    /\ UNCHANGED <<syncVars, linkVars, decoderVars, eventLoopVars,
                   threadVars>>

\* an event stamped again when it is stored
restamped_info == [returned_info EXCEPT !.started_at_lsl = @ + 1]

\* the value run_session stores: the object wait_for_spotify_play returned
stored_info == returned_info

\* run_session: state.track_info = track_info
run_session_store ==
    /\ session_pc = "returned"
    /\ track_info' = stored_info
    /\ session_pc' = "armed"
    /\ UNCHANGED <<should_stop, play_detected, pre_roll_sec, last_is_playing,
                   last_track_id, returned_info, events_created, loopVars>>
    /\ UNCHANGED <<syncVars, linkVars, decoderVars, eventLoopVars,
                   threadVars, last_poll>>

\* run_session: signal.signal(signal.SIGINT, handle_sigint)
run_session_signal ==
    /\ session_pc = "armed"
    /\ session_pc' = "handler"
    /\ UNCHANGED <<should_stop, play_detected, track_info, pre_roll_sec,
                   last_is_playing, last_track_id, returned_info,
                   events_created, loopVars>>
    /\ UNCHANGED <<syncVars, linkVars, decoderVars, eventLoopVars,
                   threadVars, last_poll>>

\* handle_sigint: runs between any two steps of the main thread once the
\* handler is installed
handle_sigint ==
    /\ session_pc \in {"handler", "recording"}
    /\ ~should_stop
    /\ should_stop' = TRUE
    /\ UNCHANGED <<play_detected, track_info, pre_roll_sec, session_pc,
                   last_is_playing, last_track_id, returned_info,
                   events_created, loopVars>>
    /\ UNCHANGED <<syncVars, linkVars, decoderVars, eventLoopVars,
                   threadVars, last_poll>>

loop_always_starts == TRUE

\* recording_loop: if not state.track_info: raise RuntimeError
loop_may_start == track_info # NoTrackInfo

\* recording_loop up to its while loop: the check, play_lsl, the writers,
\* the sample indices.  Without the check the read of
\* state.track_info.started_at_lsl raises AttributeError on None.
recording_loop_enter ==
    IF ~loop_may_start
    THEN /\ rec_pc' = "RuntimeError"
         /\ UNCHANGED <<play_lsl, writers, sample_indices>>
    ELSE IF track_info = NoTrackInfo
    THEN /\ rec_pc' = "AttributeError"
         /\ UNCHANGED <<play_lsl, writers, sample_indices>>
    ELSE /\ rec_pc' = "head"
         /\ play_lsl' = track_info.started_at_lsl
         /\ writers' = "open"
         /\ sample_indices' = [s \in Streams |-> 0]

\* run_session: recording_loop(state, rec_cfg, stream_cfgs)
run_session_record ==
    /\ session_pc = "handler"
    /\ rec_pc = "idle"
    /\ recording_loop_enter
    /\ session_pc' = "recording"
    /\ UNCHANGED <<should_stop, play_detected, track_info, pre_roll_sec,
                   last_is_playing, last_track_id, returned_info,
                   events_created, stream_no, pending, rows, pulls,
                   last_sample>>
    /\ UNCHANGED <<syncVars, linkVars, decoderVars, eventLoopVars,
                   threadVars, last_poll>>

\* recording_loop called by another caller while no reference event exists
recording_loop_unarmed ==
    /\ session_pc = "arming"
    /\ rec_pc = "idle"
    /\ track_info = NoTrackInfo
    /\ recording_loop_enter
    /\ session_pc' = "failed"
    /\ UNCHANGED <<should_stop, play_detected, track_info, pre_roll_sec,
                   last_is_playing, last_track_id, returned_info,
                   events_created, stream_no, pending, rows, pulls,
                   last_sample>>
    /\ UNCHANGED <<syncVars, linkVars, decoderVars, eventLoopVars,
                   threadVars, last_poll>>

\* while not state.should_stop: ... finally: _close_stream_writers
loop_head ==
    /\ rec_pc = "head"
    /\ IF should_stop
       THEN /\ rec_pc' = "closed"
            /\ writers' = "closed"
            /\ session_pc' = "done"
            /\ UNCHANGED stream_no
       ELSE /\ rec_pc' = "pull"
            /\ stream_no' = 1
            /\ UNCHANGED <<writers, session_pc>>
    /\ UNCHANGED <<should_stop, play_detected, track_info, pre_roll_sec,
                   last_is_playing, last_track_id, returned_info,
                   events_created, play_lsl, pending, sample_indices, rows,
                   pulls, last_sample>>
    /\ UNCHANGED <<syncVars, linkVars, decoderVars, eventLoopVars,
                   threadVars, last_poll>>

\* run_session's finally, entered when recording_loop has returned:
\* if muse_proc.poll() is None: muse_proc.terminate()
run_session_finally ==
    /\ session_pc = "done"
    /\ session_pc' = "complete"
    /\ IF running
       THEN \E o \in Terminations :
              /\ ble_client' = o.ble
              /\ radio' = o.radio
              /\ running' = o.running
              /\ keep_alive_task' = o.task
              /\ streams_created' = o.created
              /\ last_call' = Called("terminate", o)
              /\ calls' = calls + 1
       ELSE UNCHANGED <<linkVars, streams_created>>
    /\ UNCHANGED <<should_stop, play_detected, track_info, pre_roll_sec,
                   last_is_playing, last_track_id, returned_info,
                   events_created, rec_pc, play_lsl, stream_no, pending,
                   sample_indices, writers, rows, pulls, last_sample>>
    /\ UNCHANGED <<outlet, streamerData, decoderVars, eventLoopVars,
                   threadVars, last_poll>>

\* the chunks an inlet can hand over: up to MaxChunk timestamps
Chunks == UNION {[1..k -> 0..MaxLsl] : k \in 1..MaxChunk}

\* for stype, scfg in stream_cfgs.items(): chunk, ts = inlet.pull_chunk();
\* an empty chunk moves on to the next stream, the end of the for loop to
\* time.sleep and the loop head
loop_pull ==
    /\ rec_pc = "pull"
    /\ IF stream_no > Len(StreamOrder)
       THEN /\ rec_pc' = "head"
            /\ UNCHANGED <<stream_no, pending, pulls>>
       ELSE \/ /\ stream_no' = stream_no + 1
               /\ UNCHANGED <<rec_pc, pending, pulls>>
            \/ /\ pulls < MaxPulls
               /\ \E chunk \in Chunks : pending' = chunk
               /\ pulls' = pulls + 1
               /\ rec_pc' = "sample"
               /\ UNCHANGED stream_no
    /\ UNCHANGED <<should_stop, play_detected, track_info, pre_roll_sec,
                   session_pc, last_is_playing, last_track_id, returned_info,
                   events_created, play_lsl, sample_indices, writers, rows,
                   last_sample>>
    /\ UNCHANGED <<syncVars, linkVars, decoderVars, eventLoopVars,
                   threadVars, last_poll>>

kept_strictly(rel_t) == rel_t > -pre_roll_sec

\* if rel_t < -pre_roll: continue
kept(rel_t) == ~(rel_t < -pre_roll_sec)

all_indices_advance(stype) == [s \in Streams |-> sample_indices[s] + 1]

\* sample_indices[stype] += 1
indices_after_row(stype) == [sample_indices EXCEPT ![stype] = @ + 1]

\* for sample, tstamp in zip(chunk, ts): one sample of the pulled chunk
loop_sample ==
    /\ rec_pc = "sample"
    /\ LET stype == StreamOrder[stream_no]
           tstamp == Head(pending)
           rel_t == tstamp - play_lsl
       IN  /\ IF kept(rel_t)
              THEN /\ rows' = [rows EXCEPT ![stype] =
                         [count |-> @.count + 1,
                          last |-> [sample_index |-> sample_indices[stype],
                                    lsl_timestamp |-> tstamp,
                                    time_since_play_sec |-> rel_t]]]
                   /\ sample_indices' = indices_after_row(stype)
              ELSE UNCHANGED <<rows, sample_indices>>
           /\ last_sample' = [stream |-> stype, ts |-> tstamp,
                               kept |-> kept(rel_t),
                               before |-> rows[stype].count]
           /\ pending' = Tail(pending)
           /\ IF Len(pending) = 1
              THEN /\ rec_pc' = "pull"
                   /\ stream_no' = stream_no + 1
              ELSE UNCHANGED <<rec_pc, stream_no>>
    /\ UNCHANGED <<should_stop, play_detected, track_info, pre_roll_sec,
                   session_pc, last_is_playing, last_track_id, returned_info,
                   events_created, play_lsl, writers, pulls>>
    /\ UNCHANGED <<syncVars, linkVars, decoderVars, eventLoopVars,
                   threadVars, last_poll>>

-----------------------------------------------------------------------------
(* The synchronizer under arbitrary arrival order: the frames 0..MaxIndex   *)
(* arrive once on each of the four EEG characteristics, in any order.      *)

MaxIndex == 1
SyncIndices == 0..MaxIndex

NoNote == [n |-> 0, sensor |-> "none", size |-> 0, parsed |-> FALSE,
           index |-> -1, pushed |-> FALSE]

\* the streamer as start() leaves it (custom_muse_streamer.py:56-72, 207-208)
StreamerInit ==
    /\ eeg_buffer = EmptyFn
    /\ eeg_timestamps = EmptyFn
    /\ packet_counts = [s \in Sensors |-> 0]
    /\ streams_created = TRUE
    /\ outlet = [s \in Streams |-> NoOutlet]
    /\ clock = 0
    /\ delivered = EmptyFn
    /\ frames = EmptyFn
    /\ last_note = NoNote
    /\ LinkRunning

InitSync ==
    /\ StreamerInit
    /\ SessionInit
    /\ DecoderIdle
    /\ LoopIdle
    /\ ThreadIdle
    /\ pre_roll_sec = 0
    /\ next_seq = [c \in Channels |-> 0]
    /\ alive = [c \in Channels |-> TRUE]
    /\ first_seq = 0

deviceVars == <<next_seq, alive, first_seq>>

\* valid packets of channel c with index i handled so far
Delivered(c, i) ==
    IF i \in DOMAIN delivered /\ c \in DOMAIN delivered[i]
    THEN delivered[i][c] ELSE 0

\* the device sends each frame once on each characteristic; the four
\* characteristics and the frames arrive in any order
NotifyEeg ==
    /\ \E c \in Channels, i \in SyncIndices :
         /\ Delivered(c, i) = 0
         /\ on_eeg_data(c, EegPayload(c, i))
    /\ UNCHANGED <<streams_created, clock, deviceVars>>
    /\ UNCHANGED <<sessionVars, linkVars, decoderVars,
                   eventLoopVars, threadVars>>

Tick ==
    /\ clock < MaxClock
    /\ clock' = clock + 1
    /\ UNCHANGED <<eeg_buffer, eeg_timestamps, packet_counts, streams_created,
                   outlet, deviceVars, delivered, frames, last_note>>
    /\ UNCHANGED <<sessionVars, linkVars, decoderVars,
                   eventLoopVars, threadVars>>

NextSync ==
    \/ NotifyEeg

SpecSync == InitSync /\ [][NextSync]_vars

\* the same arrivals with the clock advancing between them
NextArrival ==
    \/ NotifyEeg
    \/ Tick

SpecArrival == InitSync /\ [][NextArrival]_vars

-----------------------------------------------------------------------------
(* The six notification callbacks under any payload: valid or of a wrong   *)
(* length, on any characteristic, repeated or not, with the clock          *)
(* advancing in between.                                                   *)

CallEeg ==
    /\ last_note.n < MaxNotes
    /\ \E c \in Channels : on_eeg_data(c, EegPayload(c, first_seq))
    /\ UNCHANGED <<streams_created, clock, deviceVars>>
    /\ UNCHANGED <<sessionVars, linkVars, decoderVars,
                   eventLoopVars, threadVars>>

CallEegMalformed ==
    /\ last_note.n < MaxNotes
    /\ \E c \in Channels :
         \E data \in Malformed(EegPayload(c, 0)) : on_eeg_data(c, data)
    /\ UNCHANGED <<streams_created, clock, deviceVars>>
    /\ UNCHANGED <<sessionVars, linkVars, decoderVars,
                   eventLoopVars, threadVars>>

CallImu ==
    /\ last_note.n < MaxNotes
    /\ \E s \in {"ACC", "GYRO"} : on_imu_data(s, ImuPayload(packet_counts[s]))
    /\ UNCHANGED <<streams_created, clock, deviceVars>>
    /\ UNCHANGED <<sessionVars, linkVars, decoderVars,
                   eventLoopVars, threadVars>>

CallImuMalformed ==
    /\ last_note.n < MaxNotes
    /\ \E s \in {"ACC", "GYRO"} :
         \E data \in Malformed(ImuPayload(packet_counts[s])) : on_imu_data(s, data)
    /\ UNCHANGED <<streams_created, clock, deviceVars>>
    /\ UNCHANGED <<sessionVars, linkVars, decoderVars,
                   eventLoopVars, threadVars>>

NextNotify ==
    \/ CallEeg
    \/ CallEegMalformed
    \/ CallImu
    \/ CallImuMalformed
    \/ Tick

SpecNotify == InitSync /\ [][NextNotify]_vars

-----------------------------------------------------------------------------
(* The synchronizer fed by the device over many frames: each EEG           *)
(* characteristic notifies its frames in order, at most MaxLag frames      *)
(* ahead of the slowest live one, and a characteristic may stop notifying  *)
(* for good (permanent channel loss).  The sequence index is 16 bits wide. *)

StartSeqs == {0, SeqModulus - 6}

InitRetain ==
    /\ StreamerInit
    /\ SessionInit
    /\ DecoderIdle
    /\ LoopIdle
    /\ ThreadIdle
    /\ pre_roll_sec = 0
    /\ next_seq = [c \in Channels |-> 0]
    /\ alive = [c \in Channels |-> TRUE]
    /\ first_seq \in StartSeqs

Live == {c \in Channels : alive[c]}

Slowest == CHOOSE m \in {next_seq[c] : c \in Live} :
               \A c \in Live : next_seq[c] >= m

SeqIndex(n) == (first_seq + n) % SeqModulus

DeviceSend ==
    \E c \in Live :
        /\ next_seq[c] < MaxFrames
        /\ next_seq[c] + 1 - Slowest <= MaxLag
        /\ on_eeg_data(c, EegPayload(c, SeqIndex(next_seq[c])))
        /\ next_seq' = [next_seq EXCEPT ![c] = @ + 1]
        /\ UNCHANGED <<streams_created, clock, alive, first_seq>>
        /\ UNCHANGED <<sessionVars, linkVars, decoderVars,
                   eventLoopVars, threadVars>>

ChannelDies ==
    \E c \in Live :
        /\ Cardinality(Channels \ Live) < MaxDead
        /\ alive' = [alive EXCEPT ![c] = FALSE]
        /\ UNCHANGED <<eeg_buffer, eeg_timestamps, packet_counts,
                       streams_created, outlet, clock, next_seq, first_seq,
                       delivered, frames, last_note>>
        /\ UNCHANGED <<sessionVars, linkVars, decoderVars,
                   eventLoopVars, threadVars>>

NextRetain ==
    \/ DeviceSend
    \/ ChannelDies

SpecRetain == InitRetain /\ [][NextRetain]_vars

-----------------------------------------------------------------------------
(* The sink called directly: blocks of 0..MaxBlock samples pushed to any   *)
(* stream with any reference timestamp, before and after create_streams    *)
(* and close_streams.                                                      *)

\* a block of n samples of the stream's width (4 for EEG, 3 for ACC, GYRO)
TestBlock(stream, n) ==
    [k \in 1..n |-> IF stream = "EEG" THEN <<k, -k, 10 * k, 0>>
                    ELSE <<k, -k, 10 * k>>]

\* create_streams (muse_lsl_streamer.py:57-133)
create_streams ==
    /\ ~streams_created
    /\ streams_created' = TRUE
    /\ outlet' = [s \in Streams |-> NoOutlet]
    /\ UNCHANGED <<eeg_buffer, eeg_timestamps, packet_counts, clock,
                   deviceVars, delivered, frames, last_note>>
    /\ UNCHANGED <<sessionVars, linkVars, decoderVars,
                   eventLoopVars, threadVars>>

\* close_streams (muse_lsl_streamer.py:214-230)
close_streams ==
    /\ streams_created
    /\ streams_created' = FALSE
    /\ UNCHANGED <<eeg_buffer, eeg_timestamps, packet_counts, outlet, clock,
                   deviceVars, delivered, frames, last_note>>
    /\ UNCHANGED <<sessionVars, linkVars, decoderVars,
                   eventLoopVars, threadVars>>

PushBlock ==
    /\ last_note.n < MaxPushes
    /\ \E s \in Streams, n \in 0..MaxBlock, t \in 0..MaxClock :
         LET block == TestBlock(s, n)
             push == push_chunk(s, block, t)
         IN  /\ outlet' = IF push.raised THEN outlet
                          ELSE [outlet EXCEPT ![s] =
                                  Published(@, block, t, push.chunk)]
             /\ last_note' = [n |-> last_note.n + 1, sensor |-> s, size |-> n,
                              parsed |-> TRUE, index |-> -1,
                              pushed |-> ~push.raised]
    /\ UNCHANGED <<eeg_buffer, eeg_timestamps, packet_counts, streams_created,
                   clock, deviceVars, delivered, frames>>
    /\ UNCHANGED <<sessionVars, linkVars, decoderVars,
                   eventLoopVars, threadVars>>

NextSink ==
    \/ create_streams
    \/ close_streams
    \/ PushBlock

SpecSink == InitSync /\ [][NextSink]_vars

-----------------------------------------------------------------------------
(* Claims about the synchronizer, the callbacks and the sink *)

FramesFor(i) == IF i \in DOMAIN frames THEN frames[i] ELSE 0

\* the decoded value of a raw ADC reading, in 1/256 microvolt
Microvolts256(raw) == 125 * (raw - 2048)

\* the frame of index i as the claim wants it: column 0 TP9, 1 AF7, 2 AF8,
\* 3 TP10, whatever the arrival order
ExpectedFrame(i) ==
    [k \in 1..12 |-> <<Microvolts256(DeviceRaw("TP9", i)[k]),
                       Microvolts256(DeviceRaw("AF7", i)[k]),
                       Microvolts256(DeviceRaw("AF8", i)[k]),
                       Microvolts256(DeviceRaw("TP10", i)[k])>>]

RECURSIVE FramesUpTo(_)
FramesUpTo(i) == IF i < 0 THEN 0 ELSE FramesFor(i) + FramesUpTo(i - 1)

\* C1. Frame completion: when the four channel samples of index i have each
\* arrived once, in whatever order, exactly one frame was pushed for i (and
\* none while a channel is still missing); the sink holds 12 samples per
\* pushed frame; and the frame pushed for i has TP9 in column 0, AF7 in
\* column 1, AF8 in column 2 and TP10 in column 3.
C1_FrameCompletion ==
    /\ \A i \in SyncIndices :
         /\ (\A c \in Channels : Delivered(c, i) = 1) => FramesFor(i) = 1
         /\ (\E c \in Channels : Delivered(c, i) = 0) => FramesFor(i) = 0
         /\ (last_note.pushed /\ last_note.index = i) =>
              /\ outlet["EEG"].block = ExpectedFrame(i)
              /\ \A k \in 1..12 :
                   outlet["EEG"].chunk[k].sample = ExpectedFrame(i)[k]
    /\ outlet["EEG"].count = 12 * FramesUpTo(MaxIndex)

\* frame 0 completes with TP9, the column-0 channel, arriving last, while
\* frame 1 is still waiting for channels
C1_Witness ==
    /\ last_note.pushed /\ last_note.index = 0 /\ last_note.sensor = "TP9"
    /\ FramesFor(0) = 1
    /\ Delivered("TP10", 1) = 1 /\ Delivered("TP9", 1) = 0

\* C2. Bounded retention: after every insertion the pending table holds at
\* most 10 sequence indices.
C2_BoundedRetention == Cardinality(DOMAIN eeg_buffer) <= 10

\* C8. Timestamp interpolation: the chunk a stream published last has as
\* many samples as the block pushed, in block order, and sample k (0-based)
\* carries T + k/R, R = 256 for EEG and 52 for ACC and GYRO; a block of one
\* sample carries T itself.
C8_Interpolation ==
    \A s \in Streams :
        LET o == outlet[s]
            R == IF s = "EEG" THEN 256 ELSE 52
        IN  /\ Len(o.chunk) = Len(o.block)
            /\ \A k \in 1..Len(o.chunk) :
                 /\ o.chunk[k].sample = o.block[k]
                 /\ R * (o.chunk[k].ts - o.ref) = (k - 1) * TicksPerSecond
            /\ Len(o.chunk) = 1 => o.chunk[1].ts = o.ref

\* a block of three ACC samples and a single EEG sample, both with a
\* reference timestamp other than 0
C8_Witness ==
    /\ Len(outlet["ACC"].chunk) = 3 /\ outlet["ACC"].ref = 1
    /\ outlet["ACC"].chunk[3].ts = 1 + 128
    /\ Len(outlet["EEG"].chunk) = 1 /\ outlet["EEG"].ref = 1

\* C9. Malformed-length rejection: a notification whose payload is not 20
\* bytes is rejected by the parser, and the callback that handled it leaves
\* the pending table, its timestamps, the sink and the packet counters as
\* they were.
C9_MalformedRejected ==
    [][(last_note'.n = last_note.n + 1 /\ last_note'.size # 20) =>
          /\ ~last_note'.parsed
          /\ ~last_note'.pushed
          /\ UNCHANGED <<eeg_buffer, eeg_timestamps, outlet, packet_counts>>]_vars

\* a malformed EEG payload handled while the pending table holds a frame
\* with three channels, and a malformed GYRO payload after an ACC push
C9_Witness ==
    \/ /\ ~last_note.parsed /\ last_note.size = 19
       /\ last_note.sensor \in Channels
       /\ \E i \in DOMAIN eeg_buffer : Cardinality(DOMAIN eeg_buffer[i]) = 3
    \/ /\ ~last_note.parsed /\ last_note.size = 21
       /\ last_note.sensor = "GYRO"
       /\ outlet["ACC"].count = 3

-----------------------------------------------------------------------------
(* The recording session: arming, the reference event, the recording loop  *)
(* and the stop signal, with any pre-roll of 0..MaxPreRoll ticks.          *)

InitSession ==
    /\ StreamerInit
    /\ next_seq = [c \in Channels |-> 0]
    /\ alive = [c \in Channels |-> TRUE]
    /\ first_seq = 0
    /\ SessionInit
    /\ DecoderIdle
    /\ LoopIdle
    /\ ThreadIdle
    /\ pre_roll_sec \in 0..MaxPreRoll

NextSession ==
    \/ wait_for_spotify_play
    \/ run_session_store
    \/ run_session_signal
    \/ handle_sigint
    \/ run_session_record
    \/ recording_loop_unarmed
    \/ loop_head
    \/ loop_pull
    \/ loop_sample
    \/ run_session_finally

SpecSession == InitSession /\ [][NextSession]_vars

-----------------------------------------------------------------------------
(* Claims about the recording session *)

\* C3. Pre-roll admission: the sample handled last, with timestamp t, was
\* written iff t - started_at_lsl >= -pre_roll_sec; a rejected sample added
\* no row and raised nothing; an admitted one added one row, carrying t and
\* exactly that relative time.
C3_PreRollAdmission ==
    last_sample.stream # "none" =>
        LET relative_t == last_sample.ts - track_info.started_at_lsl
            written == rows[last_sample.stream]
        IN  /\ last_sample.kept <=> relative_t >= -pre_roll_sec
            /\ ~last_sample.kept => written.count = last_sample.before
            /\ last_sample.kept =>
                 /\ written.count = last_sample.before + 1
                 /\ written.last.lsl_timestamp = last_sample.ts
                 /\ written.last.time_since_play_sec = relative_t
            /\ rec_pc \notin {"RuntimeError", "AttributeError"}

\* with a pre-roll of 1 tick and the event at 2: a sample at 1 was kept
\* with relative time -1 after a sample at 0 had been rejected
C3_Witness ==
    /\ pre_roll_sec = 1 /\ track_info.started_at_lsl = 2
    /\ last_sample.kept /\ last_sample.ts = 1
    /\ rows[last_sample.stream].last.time_since_play_sec = -1
    /\ pulls = 2
    /\ \A s \in Streams : rows[s].count = IF s = last_sample.stream THEN 1 ELSE 0

\* C4. Row index assignment: on every stream the rows written so far carry
\* 0, 1, 2, ... in write order: the next index of a stream is the number of
\* rows written to it, and the row written last carries that number less 1.
C4_RowIndex ==
    \A s \in Streams :
        /\ sample_indices[s] = rows[s].count
        /\ rows[s].count > 0 => rows[s].last.sample_index = rows[s].count - 1
        /\ rows[s].count = 0 => rows[s].last = NoRow

\* two rows on EEG, the second with index 1, while ACC and GYRO are still
\* at index 0
C4_Witness ==
    /\ rows["EEG"].count = 2 /\ rows["EEG"].last.sample_index = 1
    /\ rows["ACC"].count = 0 /\ sample_indices["ACC"] = 0
    /\ rows["GYRO"].count = 0 /\ sample_indices["GYRO"] = 0

\* C5. No admission after stop: once should_stop is set no further row is
\* written to any stream.
C5_NoRowAfterStop == [][should_stop => rows' = rows]_vars

LoopRunning == rec_pc \in {"head", "pull", "sample"}

\* C7. Single reference event: one SpotifyTrackInfo at most is constructed
\* in a session, by the detecting poll; state.track_info, once set, never
\* changes; and the recording loop and every row it writes use the
\* started_at_lsl of that event.
C7_SingleReferenceEvent ==
    /\ [](/\ events_created <= 1
          /\ track_info # NoTrackInfo =>
               /\ events_created = 1
               /\ track_info = returned_info
          /\ LoopRunning => play_lsl = track_info.started_at_lsl
          /\ \A s \in Streams : rows[s].count > 0 =>
               rows[s].last.time_since_play_sec =
                 rows[s].last.lsl_timestamp - track_info.started_at_lsl)
    /\ [][track_info # NoTrackInfo => track_info' = track_info]_vars

\* rows on two streams, written against an event detected at tick 1
C7_Witness ==
    /\ track_info.started_at_lsl = 1 /\ session_pc = "recording"
    /\ rows["EEG"].count = 1 /\ rows["ACC"].count = 1

-----------------------------------------------------------------------------
(* The link and the streamer driven by their owner: up to MaxCalls calls   *)
(* of the MuseBLEClient and CustomMuseStreamer methods in any order, with  *)
(* up to MaxFaults radio operations, and the close of the link, failing    *)
(* in each call.                                                           *)

\* a streamer just constructed, or one whose start() has succeeded
InitLink ==
    /\ eeg_buffer = EmptyFn
    /\ eeg_timestamps = EmptyFn
    /\ packet_counts = [s \in Sensors |-> 0]
    /\ outlet = [s \in Streams |-> NoOutlet]
    /\ clock = 0
    /\ delivered = EmptyFn
    /\ frames = EmptyFn
    /\ last_note = NoNote
    /\ next_seq = [c \in Channels |-> 0]
    /\ alive = [c \in Channels |-> TRUE]
    /\ first_seq = 0
    /\ SessionInit
    /\ DecoderIdle
    /\ LoopIdle
    /\ ThreadIdle
    /\ pre_roll_sec = 0
    /\ \/ /\ streams_created = FALSE
          /\ ble_client = NewClient
          /\ radio = RadioOff
          /\ running = FALSE
          /\ keep_alive_task = "None"
          /\ last_call = NoCall
          /\ calls = 0
       \/ /\ streams_created = TRUE
          /\ LinkRunning

NextLink ==
    \/ call_connect
    \/ call_subscribe_to_sensors
    \/ call_start_streaming
    \/ call_stop_streaming
    \/ call_keep_alive
    \/ call_disconnect
    \/ call_start
    \/ call_stop
    \/ keep_alive_loop

SpecLink == InitLink /\ [][NextLink]_vars

\* the radio and outlet operations of a trace that release a resource
Releases(trace) ==
    {k \in 1..Len(trace) :
       trace[k].call \in {"write_gatt_char", "stop_notify", "disconnect",
                          "close_streams"}}

\* C10. Idempotent teardown: a disconnect() (a stop()) called right after a
\* completed disconnect() (stop()) raises nothing and performs no control
\* write, no stop_notify, no link close and no outlet close.
C10_IdempotentTeardown ==
    (last_call.op \in {"disconnect", "stop"} /\ last_call.repeat >= 2) =>
        /\ last_call.raised = "none"
        /\ Releases(last_call.trace) = {}

-----------------------------------------------------------------------------
(* Claims about the link and the streamer's control methods *)

\* this step is a call of the method op
Calls(op) == calls' = calls + 1 /\ last_call'.op = op

\* C11. subscribe precondition: subscribe_to_sensors called when the link is
\* not Connected (the connected flag is false, or the call before it was a
\* disconnect()) raises RuntimeError, issues no start_notify and registers
\* no callback.
C11_SubscribePrecondition ==
    [][(/\ Calls("subscribe_to_sensors")
        /\ ~ble_client.connected \/ last_call.op = "disconnect")
       => /\ last_call'.raised = "RuntimeError"
          /\ last_call'.trace = <<>>
          /\ ble_client'.callbacks = ble_client.callbacks
          /\ radio' = radio]_vars

\* C12. start_streaming command order: a start_streaming that writes
\* anything writes the mode-select command 04 'p' '2' '1' 0a first, then,
\* after the settle delay, the start command 02 'd' 0a; after a failed
\* mode-select nothing more is written; the call returns True and the
\* streaming flag is true only when both writes succeeded, and otherwise it
\* returns False with the flag false.
C12_StartCommandOrder ==
    (last_call.op = "start_streaming" /\ last_call.trace # <<>>) =>
        LET t == last_call.trace
        IN  /\ last_call.raised = "none"
            /\ t[1].call = "write_gatt_char"
            /\ ControlBytes[t[1].arg] = <<4, 112, 50, 49, 10>>
            /\ ~t[1].ok => Len(t) = 1
            /\ t[1].ok =>
                 /\ Len(t) >= 3
                 /\ t[2].call = "sleep"
                 /\ t[3].call = "write_gatt_char"
                 /\ ControlBytes[t[3].arg] = <<2, 100, 10>>
                 /\ ~t[3].ok => Len(t) = 3
            /\ last_call.result <=> (t[1].ok /\ t[3].ok)
            /\ ble_client.streaming <=> last_call.result

\* the start command failed after a successful mode-select
C12_Witness ==
    /\ last_call.op = "start_streaming"
    /\ Len(last_call.trace) = 3
    /\ last_call.trace[1].ok /\ ~last_call.trace[3].ok
    /\ ~last_call.result /\ ~ble_client.streaming /\ ble_client.connected

\* C13. Link state machine order: the streaming flag becomes true only on a
\* connection on which subscribe_to_sensors has succeeded, that is, with
\* all six characteristics notifying.
C13_StreamingAfterSubscribe ==
    [][(~ble_client.streaming /\ ble_client'.streaming)
       => radio'.notifying = Sensors]_vars

\* C14. Keep-alive failure handling: a keep_alive(), called directly or by
\* the periodic task, raises nothing and leaves the client as it was,
\* whether its write failed or not; on a connected link it performs exactly
\* one write, of the keep-alive command 02 'k' 0a, and no second one after
\* a failure; on a link that is not connected it performs none.
C14_KeepAliveFailure ==
    [][(Calls("keep_alive") \/ Calls("_keep_alive_loop"))
       => /\ last_call'.raised = "none"
          /\ ble_client' = ble_client
          /\ ble_client.connected =>
               /\ Len(last_call'.trace) = 1
               /\ last_call'.trace[1].call = "write_gatt_char"
               /\ ControlBytes[last_call'.trace[1].arg] = <<2, 107, 10>>
          /\ ~ble_client.connected => last_call'.trace = <<>>]_vars

\* a keep-alive write failed on a connected, streaming link and changed
\* neither flag
C14_Witness ==
    /\ last_call.op \in {"keep_alive", "_keep_alive_loop"}
    /\ last_call.trace = <<[call |-> "write_gatt_char", arg |-> "k",
                            ok |-> FALSE]>>
    /\ ble_client.connected /\ ble_client.streaming

-----------------------------------------------------------------------------
(* The streamer driven through start() and stop() only, with its          *)
(* keep-alive task running in between.                                     *)

NextStreamer ==
    \/ call_start
    \/ call_stop
    \/ keep_alive_loop

SpecStreamer == InitLink /\ [][NextStreamer]_vars

\* the keep-alive writes of a trace
KeepAlives(trace) ==
    {k \in 1..Len(trace) : trace[k] \in {Did(Write(CMD_KEEP_ALIVE), {}),
                                         Did(Write(CMD_KEEP_ALIVE),
                                             KeepAliveOps)}}

\* C15. Keep-alive cadence: whenever the streamer is running its keep-alive
\* task is running and the link is connected and streaming, so that a
\* period of the task can run; each period writes exactly one keep-alive
\* command; a streamer that is not running has no running task, no period
\* runs for it, and stop() itself writes no keep-alive command.
C15_KeepAliveCadence ==
    /\ [](/\ running <=> keep_alive_task = "running"
          /\ running => ble_client.connected /\ ble_client.streaming
          /\ (running /\ calls < MaxCalls) => ENABLED keep_alive_loop
          /\ last_call.op = "stop" => KeepAlives(last_call.trace) = {})
    /\ [][Calls("_keep_alive_loop")
          => /\ running
             /\ KeepAlives(last_call'.trace) = {1}
             /\ Len(last_call'.trace) = 1]_vars
    /\ [][~running => ~Calls("_keep_alive_loop")]_vars

\* a period of the task has written its keep-alive command on a running
\* streamer, as the second call of the run
C15_Witness ==
    /\ last_call.op = "_keep_alive_loop"
    /\ KeepAlives(last_call.trace) = {1}
    /\ running /\ calls = 2

\* the places of a trace where the radio operation call was performed
Places(trace, call) == {k \in 1..Len(trace) : trace[k].call = call}

\* C16. disconnect sequence: a disconnect() on a connected, streaming link
\* performs first the stop-stream write, whether it succeeds or not, then
\* the stop_notify of each of the six subscribed characteristics, and last
\* the close of the link.
C16_DisconnectSequence ==
    [][(Calls("disconnect") /\ ble_client.connected /\ ble_client.streaming)
       => LET t == last_call'.trace
              stops == Places(t, "stop_notify")
          IN  /\ Len(t) >= 1
              /\ Places(t, "write_gatt_char") = {1}
              /\ ControlBytes[t[1].arg] = <<2, 104, 10>>
              /\ {t[k].arg : k \in stops} = Sensors
              /\ Places(t, "disconnect") = {Len(t)}
              /\ \A k \in stops : 1 < k /\ k < Len(t)]_vars

\* the radio operations of a trace that failed
Failed(trace, call) == {k \in Places(trace, call) : ~trace[k].ok}

\* C17. No partial-sensor sessions: a start() in which one of the six
\* start_notify calls failed returns False without writing the mode-select
\* or the start command or creating the keep-alive task, leaves the
\* streamer not running, ends with the close of the link, and leaves the
\* link disconnected.
C17_NoPartialSensors ==
    (last_call.op = "start" /\ Failed(last_call.trace, "start_notify") # {})
    => /\ ~last_call.result
       /\ ~running /\ keep_alive_task # "running"
       /\ Places(last_call.trace, "create_task") = {}
       /\ \A k \in Places(last_call.trace, "write_gatt_char") :
            last_call.trace[k].arg = CMD_STOP_STREAM
       /\ Places(last_call.trace, "disconnect") = {Len(last_call.trace)}
       /\ ~ble_client.connected /\ ~radio.link_up

\* C18. Full teardown on any fatal start error: after a start() that
\* returned False no characteristic is notifying, the link is closed, the
\* client is neither connected nor streaming, and the LSL outlets are
\* closed.
C18_TeardownOnStartError ==
    (last_call.op = "start" /\ ~last_call.result)
    => /\ radio.notifying = {}
       /\ ~radio.link_up
       /\ ~ble_client.connected /\ ~ble_client.streaming
       /\ ~streams_created

\* C19. Streamer stop order: a stop() that does anything first cancels the
\* keep-alive task, then runs the link disconnect, and closes the LSL
\* outlets last; it writes no keep-alive command; and when it has closed
\* the outlets the link is closed.
C19_StopOrder ==
    (last_call.op = "stop" /\ last_call.trace # <<>>)
    => LET t == last_call.trace
           outlets == Places(t, "close_streams")
       IN  /\ Places(t, "cancel") = {1}
           /\ KeepAlives(t) = {}
           /\ outlets \subseteq {Len(t)}
           /\ \A k \in Places(t, "stop_notify") \cup Places(t, "disconnect") :
                \A o \in outlets : 1 < k /\ k < o
           /\ outlets # {} => ~radio.link_up

\* C20. Session stop order: whenever the CSV writers of a session are
\* closed the device teardown has been performed: no characteristic is
\* notifying, the link is closed and the client is not streaming.
C20_SessionStopOrder ==
    writers = "closed"
    => /\ radio.notifying = {}
       /\ ~radio.link_up
       /\ ~ble_client.streaming

-----------------------------------------------------------------------------
(* The parse functions called on their own, on payloads of every kind:     *)
(* bytes repeating with period three, so that the 12-bit fields take the   *)
(* extreme and the mid-scale values in both alignments, the payloads the   *)
(* device sends, and payloads of a wrong length.                           *)

ByteInputs == {0, 8, 128, 255}

PatternPayload(a, b, c) ==
    [n \in 1..PacketBytes |-> CASE n % 3 = 1 -> a
                                [] n % 3 = 2 -> b
                                [] OTHER -> c]

Payloads ==
    {PatternPayload(a, b, c) : a \in ByteInputs, b \in ByteInputs,
                               c \in ByteInputs}
      \cup {EegPayload(c, i) : c \in Channels, i \in SyncIndices}
      \cup {ImuPayload(i) : i \in SyncIndices}
      \cup Malformed(ImuPayload(0))

InitDecoder ==
    /\ StreamerInit
    /\ SessionInit
    /\ pre_roll_sec = 0
    /\ next_seq = [c \in Channels |-> 0]
    /\ alive = [c \in Channels |-> TRUE]
    /\ first_seq = 0
    /\ packet \in Payloads
    /\ unpacked = NotUnpacked
    /\ LoopIdle
    /\ ThreadIdle

Unpacked(by, p) ==
    [by |-> by, raised |-> p.raised, packet_index |-> p.packet_index,
     samples |-> p.samples]

call_parse_eeg_packet ==
    /\ unpacked = NotUnpacked
    /\ unpacked' = Unpacked("parse_eeg_packet", parse_eeg_packet(packet))
    /\ UNCHANGED <<packet, syncVars, sessionVars, linkVars, eventLoopVars,
                   threadVars>>

call_parse_acc_packet ==
    /\ unpacked = NotUnpacked
    /\ unpacked' = Unpacked("parse_acc_packet", parse_acc_packet(packet))
    /\ UNCHANGED <<packet, syncVars, sessionVars, linkVars, eventLoopVars,
                   threadVars>>

call_parse_gyro_packet ==
    /\ unpacked = NotUnpacked
    /\ unpacked' = Unpacked("parse_gyro_packet", parse_gyro_packet(packet))
    /\ UNCHANGED <<packet, syncVars, sessionVars, linkVars, eventLoopVars,
                   threadVars>>

NextDecoder ==
    \/ call_parse_eeg_packet
    \/ call_parse_acc_packet
    \/ call_parse_gyro_packet

SpecDecoder == InitDecoder /\ [][NextDecoder]_vars

-----------------------------------------------------------------------------
(* The EEG callbacks on the event loop of the streamer's thread.  The      *)
(* callbacks are plain functions without an await, called by the loop the  *)
(* keep-alive task runs on: a callback, once entered, runs to its return   *)
(* before the loop runs anything else.  Here a callback is taken statement *)
(* by statement, so that an interleaving, if the loop allowed one, would   *)
(* show; a callback that stalls is one that does not take its next step.   *)

\* a loop that enters a callback whenever its notification arrives
may_enter_any_time(flying) == TRUE

\* the loop enters a callback only when no callback is running
may_enter(flying) == flying = EmptyFn

Flying(pc) == {c \in DOMAIN in_flight : in_flight[c].pc = pc}

Returned(c) == Without(in_flight, {c})

\* packet_index, samples = parse_eeg_packet(bytes(data)), and the test
\* if packet_index not in self._eeg_buffer
callback_enter ==
    /\ \E c \in Channels \ DOMAIN in_flight, i \in SyncIndices :
         /\ Delivered(c, i) = 0
         /\ may_enter(in_flight)
         /\ LET p == parse_eeg_packet(EegPayload(c, i))
            IN  in_flight' = Assign(in_flight, c,
                  [pc |-> IF p.packet_index \in DOMAIN eeg_buffer
                          THEN "store" ELSE "create",
                   packet_index |-> p.packet_index,
                   samples |-> p.samples])
    /\ UNCHANGED <<syncVars, sessionVars, linkVars, decoderVars, threadVars>>

\* self._eeg_buffer[packet_index] = {}
\* self._eeg_timestamps[packet_index] = pylsl.local_clock()
callback_create ==
    /\ \E c \in Flying("create") :
         LET i == in_flight[c].packet_index
         IN  /\ eeg_buffer' = Assign(eeg_buffer, i, EmptyFn)
             /\ eeg_timestamps' = Assign(eeg_timestamps, i, clock)
             /\ in_flight' = [in_flight EXCEPT ![c].pc = "store"]
    /\ UNCHANGED <<packet_counts, streams_created, outlet, clock, deviceVars,
                   delivered, frames, last_note>>
    /\ UNCHANGED <<sessionVars, linkVars, decoderVars, threadVars>>

\* self._eeg_buffer[packet_index][channel] = samples (a KeyError, when the
\* entry is gone, ends the callback in its except clause)
callback_store ==
    /\ \E c \in Flying("store") :
         LET i == in_flight[c].packet_index
         IN  IF i \in DOMAIN eeg_buffer
             THEN /\ eeg_buffer' = Assign(eeg_buffer, i,
                        Assign(eeg_buffer[i], c, in_flight[c].samples))
                  /\ in_flight' = [in_flight EXCEPT ![c].pc = "check"]
             ELSE /\ in_flight' = Returned(c)
                  /\ UNCHANGED eeg_buffer
    /\ UNCHANGED <<eeg_timestamps, packet_counts, streams_created, outlet,
                   clock, deviceVars, delivered, frames, last_note>>
    /\ UNCHANGED <<sessionVars, linkVars, decoderVars, threadVars>>

\* if len(self._eeg_buffer[packet_index]) == 4: stack, push, clean up; then
\* self._packet_counts[channel] += 1 and the return
callback_finish ==
    /\ \E c \in Flying("check") :
         LET i == in_flight[c].packet_index
             full == /\ i \in DOMAIN eeg_buffer
                     /\ DOMAIN eeg_buffer[i] = Channels
             combined == column_stack(eeg_buffer[i])
             timestamp == eeg_timestamps[i]
             push == push_chunk("EEG", combined, timestamp)
             old == IF Cardinality(DOMAIN eeg_buffer) > RetentionWindow
                    THEN oldest_indices(DOMAIN eeg_buffer) ELSE {}
             pushed == full /\ ~push.raised
         IN  /\ in_flight' = Returned(c)
             /\ eeg_buffer' = IF pushed THEN Without(eeg_buffer, old)
                              ELSE eeg_buffer
             /\ eeg_timestamps' = IF pushed THEN Without(eeg_timestamps, old)
                                  ELSE eeg_timestamps
             /\ outlet' = IF pushed
                          THEN [outlet EXCEPT !["EEG"] =
                                  Published(@, combined, timestamp, push.chunk)]
                          ELSE outlet
             /\ packet_counts' = IF i \in DOMAIN eeg_buffer /\ (full => pushed)
                                 THEN [packet_counts EXCEPT ![c] = @ + 1]
                                 ELSE packet_counts
             /\ delivered' = Assign(delivered, i,
                    Bump(IF i \in DOMAIN delivered THEN delivered[i]
                         ELSE EmptyFn, c))
             /\ frames' = IF pushed THEN Bump(frames, i) ELSE frames
             /\ last_note' = Note(c, EegPayload(c, i), TRUE, i, pushed)
    /\ UNCHANGED <<streams_created, clock, deviceVars>>
    /\ UNCHANGED <<sessionVars, linkVars, decoderVars, threadVars>>

NextCallbacks ==
    \/ callback_enter
    \/ callback_create
    \/ callback_store
    \/ callback_finish

SpecCallbacks == InitSync /\ [][NextCallbacks]_vars

\* the callbacks and the keep-alive task on the one event loop.  The loop
\* runs the task's next period whenever it is free to (asyncio schedules
\* ready tasks fairly); nothing obliges a callback to return.
NextEventLoop ==
    \/ callback_enter
    \/ callback_create
    \/ callback_store
    \/ callback_finish
    \/ keep_alive_loop

SpecEventLoop ==
    InitSync /\ [][NextEventLoop]_vars /\ WF_vars(keep_alive_loop)

-----------------------------------------------------------------------------
(* Claims about the decoder, the pass-through callbacks and the pending    *)
(* table                                                                   *)

\* the block the device's IMU payload number i stands for, as the claim
\* states it: row r is <<x_r, y_r, z_r>>, each times the modality factor
ExpectedImuBlock(sensor, i) ==
    LET raw == DeviceImuRaw(i)
        scale == IF sensor = "ACC" THEN AccScale ELSE GyroScale
    IN  [r \in 1..3 |-> <<scale * raw[r], scale * raw[3 + r],
                          scale * raw[6 + r]>>]

\* C21. ACC/GYRO pass-through: a valid accelerometer or gyroscope
\* notification publishes exactly its 3-sample block on its own stream,
\* with the clock read while handling it as reference, publishes nothing on
\* the other streams, and leaves the EEG pending table and its timestamps
\* unchanged.
C21_ImuPassThrough ==
    [][(/\ last_note'.n = last_note.n + 1
        /\ last_note'.sensor \in {"ACC", "GYRO"}
        /\ last_note'.size = PacketBytes)
       => LET s == last_note'.sensor
          IN  /\ last_note'.pushed
              /\ outlet'[s].count = outlet[s].count + 3
              /\ outlet'[s].block = ExpectedImuBlock(s, packet_counts[s])
              /\ Len(outlet'[s].chunk) = 3
              /\ outlet'[s].ref = clock
              /\ outlet'[s].chunk[1].ts = clock
              /\ \A t \in Streams \ {s} : outlet'[t] = outlet[t]
              /\ UNCHANGED <<eeg_buffer, eeg_timestamps>>]_vars

\* a gyroscope block passed through at clock 1 while the pending table
\* holds an incomplete frame, after an accelerometer block
C21_Witness ==
    /\ last_note.sensor = "GYRO" /\ last_note.pushed
    /\ outlet["GYRO"].ref = 1 /\ outlet["GYRO"].count = 3
    /\ outlet["ACC"].count = 3
    /\ eeg_buffer # EmptyFn

\* bit number n of a payload, bit 0 being the high bit of the first byte
BitAt(bytes, n) == (bytes[(n \div 8) + 1] \div (2 ^ (7 - (n % 8)))) % 2

\* the unsigned big-endian integer in the width bits from bit offset on
RECURSIVE BitField(_, _, _)
BitField(bytes, offset, width) ==
    IF width = 0 THEN 0
    ELSE 2 * BitField(bytes, offset, width - 1) + BitAt(bytes, offset + width - 1)

\* C22. EEG decode: for a 20-byte payload parse_eeg_packet raises nothing,
\* returns as index the first 16 bits read as an unsigned big-endian
\* integer, and as sample k (0..11) the value 0.48828125 * (raw - 2048) of
\* the unsigned 12-bit field at bit offset 16 + 12k: 0.0 for raw 2048,
\* -1000.0 for raw 0 and 999.51171875 = 999 + 131/256 for raw 4095 (values
\* in 1/256 uV).
C22_EegDecode ==
    (unpacked.by = "parse_eeg_packet" /\ Len(packet) = 20)
    => /\ ~unpacked.raised
       /\ unpacked.packet_index = BitField(packet, 0, 16)
       /\ unpacked.packet_index \in 0..65535
       /\ Len(unpacked.samples) = 12
       /\ \A k \in 0..11 :
            LET raw == BitField(packet, 16 + 12 * k, 12)
                value == unpacked.samples[k + 1]
            IN  /\ value = 125 * (raw - 2048)
                /\ raw = 2048 => value = 0
                /\ raw = 0 => value = -1000 * 256
                /\ raw = 4095 => value = 999 * 256 + 131

\* a payload whose twelve fields, byte-aligned or not, all hold 2048, with
\* index 0x0800
C22_Witness ==
    /\ unpacked.by = "parse_eeg_packet"
    /\ packet = PatternPayload(8, 0, 128)
    /\ unpacked.packet_index = 2048
    /\ \A k \in 1..12 : unpacked.samples[k] = 0

Signed16(u) == IF u >= 32768 THEN u - 65536 ELSE u

C24_CompletionRemoves ==
    \A i \in DOMAIN eeg_buffer : DOMAIN eeg_buffer[i] # Channels

\* C25. At most one frame per index: however often the packets of an index
\* are delivered, at most one frame is pushed for it while it is in the
\* pending table or was never evicted.
C25_OneFramePerIndex ==
    \A i \in DOMAIN frames : frames[i] <= 1

\* C26. First-arrival timestamp: the notification that creates the pending
\* entry of index i stamps it with the clock read then; no later
\* notification changes the stamp while the entry exists; and a frame of
\* index i is pushed with exactly that stamp.
C26_FirstArrivalTimestamp ==
    [][last_note'.n = last_note.n + 1 =>
         /\ \A i \in DOMAIN eeg_timestamps' :
              eeg_timestamps'[i] = IF i \in DOMAIN eeg_timestamps
                                   THEN eeg_timestamps[i] ELSE clock
         /\ (last_note'.pushed /\ last_note'.sensor \in Channels) =>
              LET i == last_note'.index
              IN  /\ outlet'["EEG"].ref = IF i \in DOMAIN eeg_timestamps
                                          THEN eeg_timestamps[i] ELSE clock
                  /\ outlet'["EEG"].chunk[1].ts = outlet'["EEG"].ref]_vars

\* the first channel of index 0 arrived at clock 0 and the frame was
\* pushed at clock 1, with reference timestamp 0
C26_Witness ==
    /\ last_note.pushed /\ last_note.sensor \in Channels
    /\ clock = 1
    /\ outlet["EEG"].ref = 0
    /\ eeg_timestamps[0] = 0
    /\ frames[0] = 1

\* C27. Eviction across sequence wraparound: an index that leaves the
\* pending table is older, in the order of the 16-bit sequence counter
\* (modulo 2^16), than every index that stays.
C27_EvictionAcrossWrap ==
    [][\A old \in DOMAIN eeg_buffer \ DOMAIN eeg_buffer' :
         \A kept_i \in DOMAIN eeg_buffer' :
            (kept_i - old) % SeqModulus < SeqModulus \div 2]_vars

\* the samples the device's packet of channel c, index i decodes to
ExpectedSamples(c, i) ==
    [k \in 1..12 |-> Microvolts256(DeviceRaw(c, i)[k])]

C29_KeepAliveIndependent ==
    \A n \in 0..(MaxCalls - 1) :
        (running /\ keep_alive_task = "running" /\ calls = n) ~> (calls > n)

\* C30. Unsubscribe failures are independent: a disconnect() on a
\* connected client attempts the stop_notify of each of the six
\* characteristics and the close of the link, whichever of the stop_notify
\* calls fail.
C30_IndependentUnsubscribe ==
    [][(Calls("disconnect") /\ ble_client.connected)
       => LET t == last_call'.trace
          IN  /\ \A s \in Sensors :
                   \E k \in Places(t, "stop_notify") : t[k].arg = s
              /\ Places(t, "disconnect") # {}]_vars

-----------------------------------------------------------------------------
(* recorder.py: MuseStreamerThread.  The caller's thread runs start(),     *)
(* terminate() and run_session's reaction to a failed start; the           *)
(* background thread runs run_async_streamer on its own event loop.  Each  *)
(* action is one stretch of one thread between two points where the other  *)
(* thread can observe or change the shared fields.                         *)

\* the streamer's fields after an operation the background thread ran
StreamerRuns(op, o) ==
    /\ ble_client' = o.ble
    /\ radio' = o.radio
    /\ running' = o.running
    /\ keep_alive_task' = o.task
    /\ streams_created' = o.created
    /\ outlet' = IF o.created /\ ~streams_created
                 THEN [s \in Streams |-> NoOutlet] ELSE outlet
    /\ last_call' = Called(op, o)

StreamerKept ==
    UNCHANGED <<ble_client, radio, running, keep_alive_task, streams_created,
                outlet, last_call>>

\* what a step of MuseStreamerThread leaves alone
ThreadFrame ==
    /\ UNCHANGED streamerData
    /\ UNCHANGED <<sessionVars, decoderVars, eventLoopVars>>

\* CustomMuseStreamer.start() raising: the link is connected and
\* create_streams(), which catches nothing, raises while making an outlet
start_raised ==
    LET con == connect(ble_client, radio, {})
        o == Ran(con, running, keep_alive_task, streams_created,
                 con.trace \o <<[call |-> "create_streams", arg |-> "self",
                                 ok |-> FALSE]>>, FALSE)
    IN  [o EXCEPT !.raised = "RuntimeError"]

\* what streamer.start() can do when the background thread runs it
StartOutcomes ==
    {start_outcome(fails) : fails \in Faults(StartOps)} \cup {start_raised}

\* what the stop() scheduled by terminate can do within one 0.1 s run of
\* the loop: it is suspended in the 0.5 s sleep of stop_streaming when the
\* stop-stream write worked, and can finish when that write raised
ScheduledStops ==
    {stop_interrupted}
    \cup {stop_outcome(fails) :
            fails \in {f \in Faults(DisconnectOps) :
                         Write(CMD_STOP_STREAM) \in f}}

\* MuseStreamerThread.start up to its wait: a set event returns True at
\* once; otherwise a new streamer is made and the thread is started.  One
\* background thread exists at a time.
thread_start ==
    /\ thread.main = "idle"
    /\ calls < MaxCalls
    /\ calls' = calls + 1
    /\ IF thread.started_event
       THEN /\ thread' = [thread EXCEPT !.returned = Append(@, TRUE)]
            /\ StreamerKept
       ELSE /\ thread.pc \in {"none", "closed"}
            /\ thread' = [thread EXCEPT !.main = "waiting", !.pc = "start",
                                         !.loop = "open", !.queued = "none"]
            /\ ble_client' = NewClient
            /\ running' = FALSE
            /\ keep_alive_task' = "None"
            /\ streams_created' = FALSE
            /\ UNCHANGED <<radio, outlet, last_call>>
    /\ ThreadFrame

\* started = self._started_event.wait(timeout=15.0);
\* return started and self._running
thread_start_wait ==
    /\ thread.main = "waiting"
    /\ thread' = [thread EXCEPT
                    !.main = "idle",
                    !.returned = Append(@, thread.started_event
                                           /\ thread.running)]
    /\ UNCHANGED calls
    /\ StreamerKept
    /\ ThreadFrame

\* MuseStreamerThread.terminate up to self._running = False
thread_terminate ==
    /\ thread.main = "idle"
    /\ calls < MaxCalls
    /\ calls' = calls + 1
    /\ thread' = IF ~thread.running THEN thread
                 ELSE [thread EXCEPT !.running = FALSE, !.terminated = TRUE,
                                     !.main = "terminating"]
    /\ StreamerKept
    /\ ThreadFrame

\* asyncio.run_coroutine_threadsafe(self.streamer.stop(), self.loop), which
\* raises on a closed loop, then self.thread.join(timeout=5.0)
thread_terminate_schedule ==
    /\ thread.main = "terminating"
    /\ thread' = IF thread.loop = "closed"
                 THEN [thread EXCEPT !.main = "idle", !.raised = TRUE]
                 ELSE [thread EXCEPT !.main = "idle", !.queued = "scheduled"]
    /\ UNCHANGED calls
    /\ StreamerKept
    /\ ThreadFrame

\* run_session: if not muse_proc.start(): raise typer.Exit(code=1); no
\* cleanup is registered yet and the daemon thread ends with the process
run_session_start_failed ==
    /\ thread.main = "idle"
    /\ thread.returned # <<>>
    /\ ~thread.returned[Len(thread.returned)]
    /\ thread' = [thread EXCEPT !.main = "exited"]
    /\ UNCHANGED calls
    /\ StreamerKept
    /\ ThreadFrame

\* run_async_streamer: loop.run_until_complete(self.streamer.start()) and
\* what follows it at once
thread_run_start ==
    /\ thread.main # "exited"
    /\ thread.pc = "start"
    /\ \E o \in StartOutcomes :
         /\ StreamerRuns("start", o)
         /\ thread' =
              IF o.raised # "none"
              THEN [thread EXCEPT !.started_event = TRUE, !.pc = "finally"]
              ELSE IF o.result
              THEN [thread EXCEPT !.running = TRUE, !.started_event = TRUE,
                                  !.pc = "loop"]
              ELSE [thread EXCEPT !.pc = "finally"]
    /\ UNCHANGED calls
    /\ ThreadFrame

\* while self._running:
thread_loop_check ==
    /\ thread.main # "exited"
    /\ thread.pc = "loop"
    /\ thread' = [thread EXCEPT !.pc = IF thread.running THEN "slice"
                                       ELSE "finally"]
    /\ UNCHANGED calls
    /\ StreamerKept
    /\ ThreadFrame

\* loop.run_until_complete(asyncio.sleep(0.1)): the loop runs for 0.1 s and
\* begins the stop() scheduled on it
thread_loop_slice ==
    /\ thread.main # "exited"
    /\ thread.pc = "slice"
    /\ IF thread.queued = "scheduled" /\ running
       THEN \E o \in ScheduledStops :
              /\ StreamerRuns("stop", o)
              /\ thread' =
                   IF o = stop_interrupted
                   THEN [thread EXCEPT !.pc = "loop", !.queued = "suspended"]
                   ELSE [thread EXCEPT !.pc = "loop", !.queued = "done",
                                       !.stops = @ + 1]
       ELSE /\ thread' = [thread EXCEPT !.pc = "loop"]
            /\ StreamerKept
    /\ UNCHANGED calls
    /\ ThreadFrame

\* finally: if self.streamer and self.streamer.is_running():
\* loop.run_until_complete(self.streamer.stop()); self.loop.close()
thread_finally ==
    /\ thread.main # "exited"
    /\ thread.pc = "finally"
    /\ IF running
       THEN \E fails \in Faults(DisconnectOps) :
              /\ StreamerRuns("stop", stop_outcome(fails))
              /\ thread' = [thread EXCEPT !.pc = "closed", !.loop = "closed",
                                          !.stops = @ + 1]
       ELSE /\ thread' = [thread EXCEPT !.pc = "closed", !.loop = "closed"]
            /\ StreamerKept
    /\ UNCHANGED calls
    /\ ThreadFrame

\* the steps of the background thread
ThreadStep ==
    \/ thread_run_start
    \/ thread_loop_check
    \/ thread_loop_slice
    \/ thread_finally

InitThread ==
    /\ InitLink
    /\ streams_created = FALSE

NextThread ==
    \/ thread_start
    \/ thread_start_wait
    \/ thread_terminate
    \/ thread_terminate_schedule
    \/ run_session_start_failed
    \/ thread_run_start
    \/ thread_loop_check
    \/ thread_loop_slice
    \/ thread_finally

SpecThread == InitThread /\ [][NextThread]_vars

\* the background thread keeps running while it has a step to take
SpecThreadFair == SpecThread /\ WF_vars(ThreadStep)

-----------------------------------------------------------------------------
(* Claims about error handling, ordering and the session's thread *)

\* C31. Malformed packets are counted: a notification dropped because its
\* payload is not 20 bytes increases one of the counters the streamer keeps
\* by one, and the next valid notification is handled normally.
C31_MalformedCounted ==
    [][(last_note'.n = last_note.n + 1 /\ last_note'.size # PacketBytes)
       => \E s \in Sensors :
            packet_counts' = [packet_counts EXCEPT ![s] = @ + 1]]_vars

\* C32. Failed connect leaves the link Disconnected: a connect() in which
\* the scan, the handshake or the is_connected check failed returns False
\* and raises nothing, with the connected and streaming flags false and the
\* link down; and a subscribe_to_sensors or start_streaming called next
\* raises the not-connected error without touching the radio.
C32_FailedConnect ==
    /\ [][(Calls("connect") /\ Failed(last_call'.trace, "find_device_by_filter")
             \cup Failed(last_call'.trace, "connect")
             \cup Failed(last_call'.trace, "is_connected") # {})
          => /\ ~last_call'.result /\ last_call'.raised = "none"
             /\ ~ble_client'.connected /\ ~ble_client'.streaming
             /\ ~radio'.link_up]_vars
    /\ [][(/\ last_call.op = "connect" /\ ~last_call.result
           /\ Calls("subscribe_to_sensors") \/ Calls("start_streaming"))
          => /\ last_call'.raised = "RuntimeError"
             /\ last_call'.trace = <<>>
             /\ ble_client' = ble_client /\ radio' = radio]_vars

\* a connect whose handshake failed after the device was found, followed by
\* a start_streaming that raised
C32_Witness ==
    /\ calls = 2
    /\ last_call.op = "start_streaming" /\ last_call.raised = "RuntimeError"
    /\ ble_client.client = "BleakClient" /\ ~ble_client.connected

\* C33. The sink preserves block order: a push that is accepted publishes
\* the whole block at once, after everything published on that stream
\* before (the stream's sample count grows by the block's length), sample
\* by sample in the block's order with strictly increasing timestamps, and
\* publishes nothing on the other streams.
C33_BlockOrder ==
    [][(last_note'.n = last_note.n + 1 /\ last_note'.pushed
          /\ last_note'.sensor \in Streams)
       => LET s == last_note'.sensor
              was == outlet[s]
              now == outlet'[s]
          IN  /\ now.count = was.count + Len(now.block)
              /\ Len(now.chunk) = Len(now.block)
              /\ \A k \in 1..Len(now.chunk) :
                   /\ now.chunk[k].sample = now.block[k]
                   /\ k > 1 => now.chunk[k].ts > now.chunk[k - 1].ts
              /\ \A t \in Streams \ {s} : outlet'[t] = outlet[t]]_vars

\* a block of three samples published on the EEG stream after a block of
\* two
C33_Witness ==
    /\ last_note.n = 2 /\ last_note.pushed /\ last_note.sensor = "EEG"
    /\ outlet["EEG"].count = 5
    /\ Len(outlet["EEG"].chunk) = 3
    /\ outlet["ACC"].count = 0 /\ outlet["GYRO"].count = 0

\* C34. EEG frames are published in timestamp order: a frame pushed to the
\* EEG stream after another has a reference timestamp that is not earlier.
C34_FramesInTimestampOrder ==
    [][(outlet["EEG"].count > 0
          /\ outlet'["EEG"].count > outlet["EEG"].count)
       => outlet'["EEG"].ref >= outlet["EEG"].ref]_vars


\* a poll whose playback has an item and reports is_playing true
PlayingPoll(poll) ==
    /\ poll.made
    /\ poll.playback.ok
    /\ poll.playback.item
    /\ poll.playback.is_playing

\* C35: wait_for_spotify_play creates its reference event only at a poll
\* whose playback has an item and is playing, and the event carries the
\* track and the local-clock and wall-clock readings of that very poll; a
\* poll of that kind made while arming always returns the event, so the
\* function is never still polling after one; a poll that failed, had no
\* item or was paused creates nothing.
C35_ReferenceEvent ==
    /\ [][(session_pc = "arming" /\ events_created' # events_created)
            => /\ PlayingPoll(last_poll')
               /\ events_created' = events_created + 1
               /\ session_pc' = "returned"
               /\ play_detected'
               /\ returned_info' = track_info'
               /\ track_info'.track_id = last_poll'.playback.track_id
               /\ track_info'.started_at_lsl = last_poll'.now_lsl
               /\ track_info'.started_at_unix = last_poll'.now_unix]_vars
    /\ [][(session_pc = "arming" /\ session_pc' = "arming")
            => /\ ~PlayingPoll(last_poll')
               /\ track_info' = NoTrackInfo
               /\ ~play_detected'
               /\ events_created' = events_created]_vars
    /\ [][(session_pc = "arming" /\ session_pc' = "returned")
            => events_created' = events_created + 1]_vars

\* the event returned at a poll that found a track playing, stamped with
\* that poll's clocks, after an earlier reading of the clocks
C35_Witness ==
    /\ session_pc = "returned"
    /\ PlayingPoll(last_poll)
    /\ last_poll.now_lsl = 2 /\ last_poll.now_unix = 1
    /\ returned_info.started_at_lsl = 2 /\ returned_info.started_at_unix = 1
    /\ events_created = 1


\* C36: in every state reached by any sequence of connect,
\* subscribe_to_sensors, start_streaming, stop_streaming, keep_alive,
\* disconnect, start and stop, with any radio operation failing, the
\* streaming flag is true only if the connected flag is true.
C36_StreamingImpliesConnected ==
    ble_client.streaming => ble_client.connected

\* a disconnect whose close of the link failed: both flags are still set
C36_Witness ==
    /\ last_call.op = "disconnect"
    /\ Failed(last_call.trace, "disconnect") # {}
    /\ ble_client.streaming
    /\ ble_client.connected


\* C37: disconnect() on a connected client always ends with the connected
\* and the streaming flag false, whichever step of the teardown failed: the
\* stop-stream write, a stop_notify, or the close of the link.
C37_DisconnectReachesDisconnected ==
    [][(Calls("disconnect") /\ ble_client.connected
          /\ ble_client.client # "None")
        => /\ ~ble_client'.connected
           /\ ~ble_client'.streaming]_vars


\* C38: after terminate() on a running streamer, CustomMuseStreamer.stop()
\* has run to completion exactly once when the background thread has
\* closed its loop, for every interleaving of terminate with the 0.1 s
\* polling loop.
C38_TerminateCompletes ==
    (thread.terminated /\ thread.pc = "closed") => thread.stops = 1

\* C39: MuseStreamerThread.start() returns True only if the background
\* streamer is running at that moment: the thread is in its polling loop,
\* _running is set and the streamer reports running; for the first and for
\* every repeated call.
C39_StartTrueMeansRunning ==
    [][(/\ Len(thread'.returned) > Len(thread.returned)
        /\ thread'.returned[Len(thread'.returned)])
        => /\ thread'.running
           /\ running'
           /\ thread'.pc \in {"loop", "slice"}]_vars

\* the last start() returned False and no other call of it is under way
StartFailed ==
    /\ thread.main \in {"idle", "exited"}
    /\ thread.returned # <<>>
    /\ ~thread.returned[Len(thread.returned)]

\* C40: once start() has returned False, a device that is connected and
\* streaming, because the start completed in the background after the
\* 15 s wait, is eventually stopped and disconnected.
C40_FailedStartLeavesNothing ==
    (StartFailed /\ ble_client.connected /\ ble_client.streaming)
      ~> (~ble_client.connected /\ ~ble_client.streaming)

=============================================================================
